---------------------------- MODULE Spec2Model ----------------------------
(***************************************************************************)
(* Model of the request/retry loops of vimeo/colophon:                     *)
(*   src/fetch_deps.py   handle_api_retry, get_all_organization_repos,     *)
(*                       get_repo_sbom, get_graphql_license_cache          *)
(*   src/fetch_repos.py  make_api_request, get_paginated_data              *)
(* Durations and clock readings are counted in ticks of 1/TicksPerSecond   *)
(* second, so that the fractional jitter of random.uniform(0, 1) is an     *)
(* integer number of ticks.                                                *)
(***************************************************************************)
EXTENDS Integers, Sequences, FiniteSets, TLC

---------------------------------------------------------------------------
(* Bounds of the model *)

TicksPerSecond == 2      \* resolution of time: jitter is 0 .. TicksPerSecond-1 ticks
MaxRetries     == 11     \* cap of the attempt counter of the exponential backoff
MaxHeader      == 2      \* largest value of Retry-After / X-RateLimit-Reset served
MaxNow         == 1      \* largest clock reading time.time(), in seconds
MaxQuota       == 2      \* rate-limited responses a patient ("finite") server sends

(* Program constants *)

base_delay == 5
max_delay  == 3600
NoRetrySleep == 0        \* sleep_duration of a response that is not retried
BackoffSignal == -1      \* sleep_duration that asks the caller for exponential backoff
OrgDefaultSleep == 5     \* get_all_organization_repos: sleep when no positive duration
BufferSeconds == 5       \* added to the time left until X-RateLimit-Reset

---------------------------------------------------------------------------
(* Helpers *)

Max(a, b) == IF a >= b THEN a ELSE b
Min(a, b) == IF a <= b THEN a ELSE b

RECURSIVE Pow2(_)
Pow2(n) == IF n = 0 THEN 1 ELSE 2 * Pow2(n - 1)

\* dict.get(k, default)
Get(d, k, default) == IF k \in DOMAIN d THEN d[k] ELSE default

Seconds(s) == s * TicksPerSecond

---------------------------------------------------------------------------
(* Responses.  A response is what session.get / session.post produces: a *)
(* network-level exception (exc), or a status code, headers and a body.   *)

Remaining  == "X-RateLimit-Remaining"
Reset      == "X-RateLimit-Reset"
RetryAfter == "Retry-After"

NoHeaders == [h \in {} |-> 0]
Opt(name, vals) == {NoHeaders} \cup {name :> v : v \in vals}

Headers ==
    { a @@ b @@ c : a \in Opt(Remaining, {0, 1}),
                    b \in Opt(Reset, {0, MaxHeader}),
                    c \in Opt(RetryAfter, {0, MaxHeader}) }

StatusCodes == {200, 403, 404, 429, 500}

\* JSON bodies: a list, an object (a function from keys), or text that is not JSON
JsonList(items)  == [type |-> "list", value |-> items]
JsonObject(obj)  == [type |-> "object", value |-> obj]
NotJson          == [type |-> "text", value |-> <<>>]

\* Python's  k in response.json()  (a list of dicts never contains the key string)
In(k, json) == json.type = "object" /\ k \in DOMAIN json.value

ErrorEntries == { [type |-> "RATE_LIMITED"], [type |-> "NOT_FOUND"], [message |-> "timeout"] }
ErrorLists   == { <<e>> : e \in ErrorEntries } \cup { <<[type |-> "NOT_FOUND"], [type |-> "RATE_LIMITED"]>> }

Times   == 0 .. Seconds(MaxNow)
Jitters == 0 .. (TicksPerSecond - 1)

NoLinks == [k \in {} |-> 0]
NetworkError ==
    [exc |-> TRUE, status_code |-> 0, headers |-> NoHeaders, body |-> NotJson, links |-> NoLinks]
Http(st, hd, bd) ==
    [exc |-> FALSE, status_code |-> st, headers |-> hd, body |-> bd, links |-> NoLinks]
\* response before the first request of a loop: no status, no headers, no body
NoResponse == Http(0, NoHeaders, NotJson)

---------------------------------------------------------------------------
(* fetch_deps.handle_api_retry: the classification of one response.  t is *)
(* the reading of time.time().  raised names the exception that leaves    *)
(* the function instead of a returned tuple.                               *)

Outcome(retry, dur, exn) == [should_retry |-> retry, sleep_duration |-> dur, raised |-> exn]

\* faulty variant: the wait ends at the reset time, without the buffer
wait_duration_NoBuffer(reset_time, t) == Max(0, Seconds(reset_time) - t)

\* line 92: wait_duration = max(0, reset_time - time.time()) + 5
wait_duration(reset_time, t) == Max(0, Seconds(reset_time) - t) + Seconds(BufferSeconds)

handle_api_retry(r, t) ==
    IF r.status_code = 403 /\ Remaining \in DOMAIN r.headers /\ r.headers[Remaining] = 0
    THEN IF Reset \in DOMAIN r.headers
         THEN Outcome(TRUE, wait_duration(r.headers[Reset], t), "none")
         ELSE Outcome(FALSE, NoRetrySleep, "KeyError")
    ELSE IF r.status_code = 429 \/ (r.status_code = 403 /\ RetryAfter \in DOMAIN r.headers)
    THEN IF RetryAfter \in DOMAIN r.headers
         THEN Outcome(TRUE, Seconds(r.headers[RetryAfter] + 1), "none")
         ELSE Outcome(TRUE, BackoffSignal, "none")
    ELSE IF r.status_code = 200
    THEN IF r.body.type = "text"
         THEN Outcome(FALSE, NoRetrySleep, "JSONDecodeError")
         ELSE IF In("errors", r.body)
              THEN IF \E i \in DOMAIN r.body.value.errors :
                         Get(r.body.value.errors[i], "type", "None") = "RATE_LIMITED"
                   THEN Outcome(TRUE, BackoffSignal, "none")
                   ELSE Outcome(FALSE, NoRetrySleep, "none")
              ELSE Outcome(FALSE, NoRetrySleep, "none")
    ELSE Outcome(FALSE, NoRetrySleep, "none")


---------------------------------------------------------------------------
(* The responses an endpoint serves.  Statuses 403 and 429 carry every    *)
(* combination of the rate-limit headers; a 200 carries the endpoint's    *)
(* payload, an errors body or text that is not JSON.                       *)

AllHeaders == (Remaining :> 0) @@ (Reset :> MaxHeader) @@ (RetryAfter :> 0)
ErrorBody  == JsonObject([message |-> "error"])
ErrorsOnly(errs) == JsonObject([errors |-> errs])

\* the header combinations the endpoints send with a 403: none, the primary
\* limit with a reset ahead, past or missing, the secondary limit, and mixtures
LoopHeaders ==
    { NoHeaders,
      (Remaining :> 0) @@ (Reset :> MaxHeader),
      (Remaining :> 0) @@ (Reset :> 0),
      (Remaining :> 0),
      AllHeaders,
      (Remaining :> 1) @@ (Reset :> MaxHeader),
      (RetryAfter :> MaxHeader),
      (RetryAfter :> 0),
      (Remaining :> 1) @@ (Reset :> MaxHeader) @@ (RetryAfter :> MaxHeader) }

\* what every endpoint may answer besides its own payload
OtherResponses ==
    {NetworkError}
    \cup { Http(403, h, ErrorBody) : h \in LoopHeaders }
    \cup { Http(429, h, ErrorBody) : h \in {NoHeaders, RetryAfter :> MaxHeader, AllHeaders} }
    \cup { Http(st, NoHeaders, ErrorBody) : st \in {404, 500} }
    \cup { Http(200, NoHeaders, b) : b \in {NotJson} \cup {ErrorsOnly(e) : e \in ErrorLists} }
    \cup { Http(200, AllHeaders, ErrorsOnly(<<[type |-> "RATE_LIMITED"]>>)) }

\* a 200 with the endpoint's payload and link relations
Payload(body, links) ==
    { [Http(200, h, body) EXCEPT !.links = links] : h \in {NoHeaders, AllHeaders} }

\* every status with every header combination and body: the domain of handle_api_retry
Responses ==
    {NetworkError}
    \cup { Http(st, h, b) : st \in StatusCodes, h \in Headers,
                            b \in {ErrorBody, NotJson, JsonList(<<>>)}
                                  \cup {ErrorsOnly(e) : e \in ErrorLists} }

\* The rate-limit signals of the API: primary exhaustion, secondary limiting,
\* and a RATE_LIMITED error inside a 200 body.
RateLimitSignal(r) ==
    /\ ~r.exc
    /\ \/ r.status_code = 403 /\ Get(r.headers, Remaining, 1) = 0
       \/ r.status_code = 429
       \/ r.status_code = 403 /\ RetryAfter \in DOMAIN r.headers
       \/ /\ r.status_code = 200 /\ In("errors", r.body)
          /\ \E i \in DOMAIN r.body.value.errors :
                Get(r.body.value.errors[i], "type", "None") = "RATE_LIMITED"

---------------------------------------------------------------------------
(* The server's data: the pages of the organization's repository listing. *)
(* A url is the number of the page it addresses.                           *)

MaxPages == 2            \* bound: pages of the repository listing
NoUrl    == 0            \* url = None
FirstUrl == 1            \* f"{GITHUB_API_URL}/orgs/{org}/repos"

PageContents == { <<>>, <<"r1">>, <<"r2", "r1">> }
Listings == UNION { [1 .. n -> PageContents] : n \in 1 .. MaxPages }

RECURSIVE Flatten(_)
Flatten(ps) == IF ps = <<>> THEN <<>> ELSE Head(ps) \o Flatten(Tail(ps))

---------------------------------------------------------------------------
(* The server's data: the dependency-graph manifests of one repository,   *)
(* in pages.  A cursor is the number of pages before it; NoCursor is None. *)

MaxGqlPages == 2         \* bound: manifest pages of a repository
NoCursor    == 0         \* manifests_after = None

Null == [isNull |-> TRUE]
License(spdx, name, u) == [isNull |-> FALSE, spdxId |-> spdx, name |-> name, url |-> u]
Repo(nwo, lic) == [isNull |-> FALSE, nameWithOwner |-> nwo, licenseInfo |-> lic]
Dep(pkg, repo) == [isNull |-> FALSE, packageName |-> pkg, repository |-> repo]

DepA_MIT    == Dep("a", Repo("o/a", License("MIT", "MIT License", "u/mit")))
DepA_NoRepo == Dep("a", Null)
DepB_NoLic  == Dep("b", Repo("o/b", Null))
DepUnnamed  == Dep("", Repo("o/x", License("NOASSERTION", "Other", "None")))

\* a manifest is the first page of its dependency nodes; a page is a sequence of manifests
ManifestPages ==
    { << <<DepA_MIT, DepB_NoLic>>, <<DepA_NoRepo>> >>,
      << <<DepA_NoRepo, DepUnnamed, DepA_MIT>> >>,
      << <<Null, DepB_NoLic>>, <<>> >> }

GqlListings == UNION { [1 .. n -> ManifestPages] : n \in 1 .. MaxGqlPages }

---------------------------------------------------------------------------
(* State *)

VARIABLES
    fn,             \* the function that is executing
    pc,             \* its position: "call", "loop", "returned", "raised"
    response,       \* the last response received
    now,            \* time.time() as read in the last iteration, in ticks (0: not read)
    should_retry,   \* tuple returned by handle_api_retry for the last response
    sleep_duration, \*   its second component, then the duration slept
    raised,         \* exception that left the function ("none" if it returned)
    jitter,         \* random.uniform(0, 1) as drawn in the last iteration, in ticks (0: not drawn)
    slept,          \* <<d>> if the last iteration called time.sleep(d), else <<>>
    retries,        \* attempt counter of the exponential backoff
    result,         \* the value returned
    url,            \* REST walkers: the page to request, NoUrl when exhausted
    page,           \* get_all_organization_repos: page number (for the log)
    all_repos,      \* get_all_organization_repos: items collected
    all_items,      \* get_paginated_data: items collected
    params,         \* get_paginated_data: query parameters of the next request
    attempt,        \* make_api_request: loop index of range(max_retries)
    license_cache,      \* get_graphql_license_cache: package name -> entry
    manifests_after,    \*   cursor of the next query
    has_next_manifest,  \*   loop condition
    orgPages,       \* server: the pages of the listing
    gqlPages,       \* server: the manifest pages of the repository
    finite,         \* server regime: TRUE if it sends at most quota more rate-limit signals
    quota,
    sbom_data,      \* parse_sbom_data / main: the SBOM as get_repo_sbom returned it
    repo_url,       \*   the html_url of the repository
    graphql_cache,  \*   the license cache of the repository
    dependencies,   \*   the rows parse_sbom_data returned
    start_index,    \* main: --start-index
    idx,            \*   i, the index of enumerate(repos_to_process, start=start_index)
    csvfile,        \*   the rows of the output file
    events,         \*   the calls main has made for repositories, in order
    server          \* server: what the two per-repository calls end with

retryVars  == <<should_retry, sleep_duration, retries>>
drawVars   == <<now, jitter>>
orgVars    == <<url, page, all_repos>>
reposVars  == <<all_items, params, attempt>>
gqlVars    == <<license_cache, manifests_after, has_next_manifest>>
dataVars   == <<orgPages, gqlPages>>

parseVars  == <<sbom_data, repo_url, graphql_cache, dependencies>>
mainVars   == <<start_index, idx, csvfile, events, server>>
pipelineVars == <<parseVars, mainVars>>

vars == <<fn, pc, response, raised, slept, result, retryVars, drawVars, orgVars, reposVars,
          gqlVars, dataVars, finite, quota, pipelineVars>>

EmptyDict   == [k \in {} |-> 0]
Pending     == [tag |-> "pending"]
ReturnNone  == [tag |-> "None"]
ReturnValue(v) == [tag |-> "value", value |-> v]

\* The server: a patient one stops sending rate-limit signals after quota of them.
ServerSends(r) ==
    /\ RateLimitSignal(r) /\ finite => quota > 0
    /\ quota' = IF RateLimitSignal(r) /\ finite THEN quota - 1 ELSE quota
    /\ UNCHANGED <<finite, dataVars>>

InitLoops ==
    /\ response = NoResponse
    /\ now = 0
    /\ should_retry = FALSE
    /\ sleep_duration = NoRetrySleep
    /\ raised = "none"
    /\ jitter = 0
    /\ slept = <<>>
    /\ retries = 0
    /\ result = Pending
    /\ page = 1
    /\ all_repos = <<>>
    /\ all_items = <<>>
    /\ params = "None"
    /\ attempt = 0
    /\ license_cache = EmptyDict
    /\ manifests_after = NoCursor
    /\ has_next_manifest = TRUE
    /\ quota = MaxQuota

\* main is not running: no file, no calls
InitNoMain ==
    /\ start_index = 0
    /\ idx = 0
    /\ csvfile = <<>>
    /\ events = <<>>
    /\ server = EmptyDict

\* no SBOM, no cache, no rows: the state of the pipeline's locals outside main
InitNoPipeline ==
    /\ sbom_data = ReturnNone
    /\ repo_url = "None"
    /\ graphql_cache = EmptyDict
    /\ dependencies = <<>>
    /\ InitNoMain

InitCommon == InitLoops /\ InitNoPipeline

\* line 92 is the only reading of time.time() in handle_api_retry
ReadsClock(r) ==
    r.status_code = 403 /\ Get(r.headers, Remaining, 1) = 0 /\ Reset \in DOMAIN r.headers

\* the readings time.time() may give while r is classified (none when it is not read)
ClockReadings(r) == IF ReadsClock(r) THEN Times ELSE {0}

\* the values random.uniform(0, 1) may give when r leads to exponential backoff
JitterDraws(r) ==
    IF ~r.exc /\ handle_api_retry(r, 0).sleep_duration = BackoffSignal THEN Jitters ELSE {0}

\* list.extend(response.json()): the items of a list, the keys of an object
JsonIter(body) ==
    IF body.type = "list" THEN body.value
    ELSE IF DOMAIN body.value = {} THEN <<>>
    ELSE << CHOOSE k \in DOMAIN body.value : TRUE >>

\* response.links.get("next", {}).get("url")
NextUrl(r) == Get(Get(r.links, "next", NoLinks), "url", NoUrl)

\* GET /orgs/{org}/repos at url u
OrgResponses(u) ==
    OtherResponses
    \cup ( IF u \in DOMAIN orgPages
           THEN Payload(JsonList(orgPages[u]),
                        IF u < Len(orgPages) THEN "next" :> [url |-> u + 1] ELSE NoLinks)
           ELSE {} )

---------------------------------------------------------------------------
(* handle_api_retry applied to one response *)

InitRetry ==
    /\ InitCommon
    /\ fn = "handle_api_retry"
    /\ finite = FALSE
    /\ pc = "call"
    /\ url = NoUrl
    /\ orgPages = <<>>
    /\ gqlPages = <<>>

classify ==
    /\ fn = "handle_api_retry" /\ pc = "call"
    /\ \E r \in Responses \ {NetworkError}, t \in Times :
         LET out == handle_api_retry(r, t) IN
         /\ response' = r
         /\ now' = t
         /\ should_retry' = out.should_retry
         /\ sleep_duration' = out.sleep_duration
         /\ raised' = out.raised
         /\ pc' = IF out.raised = "none" THEN "returned" ELSE "raised"
    /\ UNCHANGED <<fn, jitter, slept, retries, result, orgVars, reposVars, gqlVars,
                   dataVars, finite, quota>>
    /\ UNCHANGED pipelineVars

\* C1: for every response, handle_api_retry returns the outcome of the rules in
\* precedence order: (1) 403 with X-RateLimit-Remaining = 0: retry with the
\* reset-based wait, also with Retry-After present; (2) otherwise 429, or 403
\* with Retry-After: retry with Retry-After + 1, or the backoff signal when the
\* header is absent; (3) otherwise 200 with a RATE_LIMITED body error: retry with
\* the backoff signal; (4) every other response: no retry.
C1_ClassificationRules ==
    (fn = "handle_api_retry" /\ pc # "call") =>
        /\ raised = "none"
        /\ IF response.status_code = 403 /\ Get(response.headers, Remaining, 1) = 0
           THEN /\ should_retry
                /\ Reset \in DOMAIN response.headers
                /\ sleep_duration =
                     Max(0, Seconds(response.headers[Reset]) - now) + Seconds(5)
           ELSE IF \/ response.status_code = 429
                   \/ response.status_code = 403 /\ RetryAfter \in DOMAIN response.headers
           THEN /\ should_retry
                /\ sleep_duration = IF RetryAfter \in DOMAIN response.headers
                                    THEN Seconds(response.headers[RetryAfter] + 1)
                                    ELSE -1
           ELSE IF RateLimitSignal(response)
           THEN should_retry /\ sleep_duration = -1
           ELSE ~should_retry

---------------------------------------------------------------------------
(* fetch_deps.get_repo_sbom *)

\* lines 168-169 and 218-219: the wait of an exponential-backoff retry
ExponentialDelay(n, j) ==
    Min(Seconds(base_delay * Pow2(n)) + j, Seconds(max_delay))

\* faulty variant: the counter is never reset by a retry that a header times
Backoff_KeepsCounting(signal, n, j) ==
    IF signal = BackoffSignal
    THEN [sleep_duration |-> ExponentialDelay(n, j), retries |-> n + 1]
    ELSE [sleep_duration |-> signal, retries |-> n + 1]

\* faulty variant: the wait that the headers dictate loses a second
Backoff_ShortWait(signal, n, j) ==
    IF signal = BackoffSignal
    THEN [sleep_duration |-> ExponentialDelay(n, j), retries |-> n + 1]
    ELSE [sleep_duration |-> signal - Seconds(1), retries |-> 0]

\* lines 166-172 and 216-222: the wait and the attempt counter of a retry
Backoff(signal, n, j) ==
    IF signal = BackoffSignal
    THEN [sleep_duration |-> ExponentialDelay(n, j), retries |-> n + 1]
    ELSE [sleep_duration |-> signal, retries |-> 0]

SbomDocument == JsonObject([sbom |-> "document"])
SbomResponses ==
    OtherResponses
    \cup { Http(404, h, ErrorBody) : h \in LoopHeaders }
    \cup Payload(SbomDocument, NoLinks)

InitSbom ==
    /\ InitCommon
    /\ fn = "get_repo_sbom"
    /\ finite = FALSE
    /\ pc = "loop"
    /\ url = NoUrl
    /\ orgPages = <<>>
    /\ gqlPages = <<>>

\* an iteration that neither reads the clock nor draws a jitter
NoDraws == now' = 0 /\ jitter' = 0

\* the function ends: it returns v, or exception exn propagates to the caller
Ends(v, exn) ==
    /\ pc' = IF exn = "none" THEN "returned" ELSE "raised"
    /\ raised' = exn
    /\ result' = v
    /\ slept' = <<>>

\* the retry branch shared by get_repo_sbom and get_graphql_license_cache
\* (lines 166-176, 216-226): backoff, sleep, continue
RetryWithBackoff(r, t, j, out) ==
    LET b == Backoff(out.sleep_duration, retries, j) IN
    /\ out.sleep_duration = BackoffSignal => retries < MaxRetries
    /\ should_retry' = TRUE
    /\ sleep_duration' = b.sleep_duration
    /\ retries' = b.retries
    /\ jitter' = j
    /\ now' = t
    /\ slept' = <<b.sleep_duration>>
    /\ pc' = "loop"
    /\ UNCHANGED <<raised, result>>

\* faulty variant: the body is returned whatever the status
SbomOutcome_AnyStatus(r) == ReturnValue(r.body)

\* lines 178-183: what get_repo_sbom returns for a response that is not retried
SbomOutcome(r) ==
    IF r.status_code \in {404, 403} THEN ReturnNone
    ELSE IF r.status_code >= 400 THEN ReturnNone
    ELSE ReturnValue(r.body)

\* one iteration of the while loop of get_repo_sbom
get_repo_sbom ==
    /\ fn = "get_repo_sbom" /\ pc = "loop"
    /\ \E r \in SbomResponses :
       \E t \in ClockReadings(r), j \in JitterDraws(r) :
         /\ ServerSends(r)
         /\ response' = r
         /\ IF r.exc
            THEN /\ Ends(ReturnNone, "none")
                 /\ UNCHANGED retryVars /\ NoDraws
            ELSE LET out == handle_api_retry(r, t) IN
                 IF out.raised = "KeyError"
                 THEN /\ Ends(result, "KeyError")
                      /\ UNCHANGED retryVars /\ NoDraws
                 ELSE IF out.raised = "JSONDecodeError"
                 THEN /\ Ends(ReturnNone, "none")
                      /\ UNCHANGED retryVars /\ NoDraws
                 ELSE IF out.should_retry
                 THEN RetryWithBackoff(r, t, j, out)
                 ELSE /\ should_retry' = FALSE
                      /\ sleep_duration' = out.sleep_duration
                      /\ UNCHANGED retries /\ NoDraws
                      /\ Ends(SbomOutcome(r), "none")
    /\ UNCHANGED <<fn, orgVars, reposVars, gqlVars>>
    /\ UNCHANGED pipelineVars

---------------------------------------------------------------------------
(* fetch_deps.get_all_organization_repos *)

InitOrg ==
    /\ InitCommon
    /\ fn = "get_all_organization_repos"
    /\ finite = FALSE
    /\ pc = "loop"
    /\ orgPages \in Listings
    /\ gqlPages = <<>>
    /\ url = FirstUrl

\* faulty variant: the page replaces what was collected
OrgAdvance_Replace(r) ==
    /\ all_repos' = JsonIter(r.body)
    /\ url' = NextUrl(r)
    /\ page' = page + 1
    /\ IF url' # NoUrl
       THEN /\ pc' = "loop"
            /\ UNCHANGED <<raised, result>>
            /\ slept' = <<>>
       ELSE Ends(ReturnValue(all_repos'), "none")

\* lines 143-144 and the loop test of line 129
OrgAdvance(r) ==
    /\ all_repos' = all_repos \o JsonIter(r.body)
    /\ url' = NextUrl(r)
    /\ page' = page + 1
    /\ IF url' # NoUrl
       THEN /\ pc' = "loop"
            /\ UNCHANGED <<raised, result>>
            /\ slept' = <<>>
       ELSE Ends(ReturnValue(all_repos'), "none")

\* the break of line 148, then return all_repos
OrgBreak ==
    /\ Ends(ReturnValue(all_repos), "none")
    /\ UNCHANGED orgVars

\* one iteration of the while loop of get_all_organization_repos
get_all_organization_repos ==
    /\ fn = "get_all_organization_repos" /\ pc = "loop"
    /\ \E r \in OrgResponses(url) :
       \E t \in ClockReadings(r) :
         /\ ServerSends(r)
         /\ response' = r
         /\ IF r.exc
            THEN /\ OrgBreak
                 /\ UNCHANGED retryVars /\ NoDraws
            ELSE LET out == handle_api_retry(r, t) IN
                 IF out.raised = "KeyError"
                 THEN /\ Ends(result, "KeyError")
                      /\ UNCHANGED <<retryVars, orgVars>> /\ NoDraws
                 ELSE IF out.raised = "JSONDecodeError"
                 THEN /\ OrgBreak
                      /\ UNCHANGED retryVars /\ NoDraws
                 ELSE /\ should_retry' = out.should_retry
                      /\ sleep_duration' = out.sleep_duration
                      /\ now' = t /\ jitter' = 0
                      /\ UNCHANGED retries
                      /\ IF out.should_retry
                         THEN /\ slept' = << IF out.sleep_duration > 0
                                             THEN out.sleep_duration
                                             ELSE Seconds(OrgDefaultSleep) >>
                              /\ pc' = "loop"
                              /\ UNCHANGED <<raised, result, orgVars>>
                         ELSE IF r.status_code >= 400
                         THEN OrgBreak
                         ELSE OrgAdvance(r)
    /\ UNCHANGED <<fn, reposVars, gqlVars>>
    /\ UNCHANGED pipelineVars

---------------------------------------------------------------------------
(* fetch_repos.make_api_request as called by fetch_repos.get_paginated_data *)

max_retries == 5
DefaultResetDelay == 60     \* time.time() + 60 when X-RateLimit-Reset is absent

InitPaginated ==
    /\ InitCommon
    /\ fn = "get_paginated_data"
    /\ finite = FALSE
    /\ pc = "loop"
    /\ orgPages \in Listings
    /\ gqlPages = <<>>
    /\ url = FirstUrl

\* get_paginated_data ends: it returns v, or exn propagates out of it
PaginatedEnds(v, exn) ==
    /\ pc' = IF exn = "none" THEN "returned" ELSE "raised"
    /\ raised' = exn
    /\ result' = v
    /\ UNCHANGED <<url, all_items, params>>

\* faulty variant: a rate-limit wait does not use up an attempt
ReposContinue_Uncounted(wait) ==
    /\ slept' = <<wait>>
    /\ attempt' = attempt
    /\ pc' = "loop"
    /\ UNCHANGED <<raised, result, url, all_items, params>>

\* make_api_request: continue (lines 82, 90) after time.sleep(wait); when
\* range(max_retries) is exhausted it returns None and the caller breaks
ReposContinue(wait) ==
    /\ slept' = <<wait>>
    /\ attempt' = attempt + 1
    /\ IF attempt + 1 < max_retries
       THEN /\ pc' = "loop"
            /\ UNCHANGED <<raised, result, url, all_items, params>>
       ELSE PaginatedEnds(ReturnValue(all_items), "none")

\* make_api_request: the except clause of lines 95-104
ReposExcept ==
    IF attempt < max_retries - 1
    THEN /\ slept' = <<Seconds(Pow2(attempt))>>
         /\ attempt' = attempt + 1
         /\ pc' = "loop"
         /\ UNCHANGED <<raised, result, url, all_items, params>>
    ELSE /\ slept' = <<>>
         /\ attempt' = attempt
         /\ PaginatedEnds(result, "RequestException")

\* make_api_request returns the response: get_paginated_data lines 124-135
PaginatedAdvance(r) ==
    /\ slept' = <<>>
    /\ attempt' = 0
    /\ IF r.body.type = "text"
       THEN PaginatedEnds(result, "JSONDecodeError")
       ELSE /\ all_items' = all_items \o JsonIter(r.body)
            /\ url' = NextUrl(r)
            /\ params' = IF "next" \in DOMAIN r.links THEN "None" ELSE params
            /\ IF url' # NoUrl
               THEN /\ pc' = "loop" /\ UNCHANGED <<raised, result>>
               ELSE /\ pc' = "returned" /\ raised' = "none"
                    /\ result' = ReturnValue(all_items')

\* lines 85-87: the wait of the primary rate limit
ReposResetWait(r, t) ==
    LET reset_time == IF Reset \in DOMAIN r.headers
                      THEN Seconds(r.headers[Reset])
                      ELSE Seconds((t + Seconds(DefaultResetDelay)) \div TicksPerSecond)
    IN  Max(reset_time - t, 0) + Seconds(BufferSeconds)

\* line 86-87 read time.time() on the primary rate limit only
ReposClockReadings(r) ==
    IF /\ ~r.exc /\ RetryAfter \notin DOMAIN r.headers
       /\ r.status_code = 403 /\ Get(r.headers, Remaining, 1) = 0
    THEN Times ELSE {0}

\* one iteration of the for loop of make_api_request
make_api_request ==
    /\ fn = "get_paginated_data" /\ pc = "loop"
    /\ \E r \in OrgResponses(url) :
       \E t \in ReposClockReadings(r) :
         /\ ServerSends(r)
         /\ response' = r
         /\ IF r.exc
            THEN ReposExcept /\ now' = t
            ELSE IF RetryAfter \in DOMAIN r.headers
            THEN ReposContinue(Seconds(r.headers[RetryAfter])) /\ now' = t
            ELSE IF r.status_code = 403 /\ Get(r.headers, Remaining, 1) = 0
            THEN ReposContinue(ReposResetWait(r, t)) /\ now' = t
            ELSE IF r.status_code >= 400
            THEN ReposExcept /\ now' = t
            ELSE PaginatedAdvance(r) /\ now' = t
    /\ UNCHANGED <<fn, should_retry, sleep_duration, jitter, retries, page, all_repos,
                   gqlVars>>
    /\ UNCHANGED pipelineVars

---------------------------------------------------------------------------
(* fetch_deps.get_graphql_license_cache *)

\* lines 251-259: the cache entry of a dependency node
CacheEntry(dep) ==
    LET license_info == IF dep.repository.isNull THEN Null ELSE dep.repository.licenseInfo
        repo_name    == IF dep.repository.isNull THEN "None"
                        ELSE dep.repository.nameWithOwner
    IN  [ spdxId   |-> IF license_info.isNull THEN "None" ELSE license_info.spdxId,
          name     |-> IF license_info.isNull THEN "None" ELSE license_info.name,
          url      |-> IF license_info.isNull THEN "None" ELSE license_info.url,
          repoName |-> repo_name ]

\* faulty variant: an entry already in the cache is kept
MergeDep_FirstWins(cache, dep) ==
    IF dep.isNull \/ dep.packageName = ""
    THEN cache
    ELSE cache @@ (dep.packageName :> CacheEntry(dep))

\* lines 247-259: one dependency node
MergeDep(cache, dep) ==
    IF dep.isNull \/ dep.packageName = ""
    THEN cache
    ELSE (dep.packageName :> CacheEntry(dep)) @@ cache

\* line 246: the dependency nodes of a manifest, in order
RECURSIVE MergeDeps(_, _)
MergeDeps(cache, deps) ==
    IF deps = <<>> THEN cache
    ELSE MergeDeps(MergeDep(cache, Head(deps)), Tail(deps))

\* line 244: the manifests of a page, in order
RECURSIVE MergeManifests(_, _)
MergeManifests(cache, manifests) ==
    IF manifests = <<>> THEN cache
    ELSE MergeManifests(MergeDeps(cache, Head(manifests)), Tail(manifests))

\* POST /graphql with manifestsAfter = c.  The page after cursor c, with the
\* cursor that follows it.  At the end of the manifests the server says
\* hasNextPage = false, leaves the key out, or keeps reporting true (then the
\* following pages are empty and the cursor stays).
GqlPageInfos(c) ==
    LET end == Min(c + 1, Len(gqlPages)) IN
    IF c + 1 < Len(gqlPages)
    THEN { [endCursor |-> end, hasNextPage |-> TRUE] }
    ELSE { [endCursor |-> end, hasNextPage |-> FALSE],
           [endCursor |-> end],
           [endCursor |-> end, hasNextPage |-> TRUE] }

GqlData(c, info) ==
    [repository |->
        [isNull |-> FALSE,
         dependencyGraphManifests |->
            [nodes |-> IF c + 1 \in DOMAIN gqlPages THEN gqlPages[c + 1] ELSE <<>>,
             pageInfo |-> info]]]

GqlResponses(c) ==
    OtherResponses
    \cup { Http(200, NoHeaders, ErrorBody),
           Http(200, NoHeaders, JsonObject([data |-> [repository |-> Null]])) }
    \cup UNION { Payload(JsonObject([data |-> GqlData(c, info)]), NoLinks)
                 \cup { Http(200, NoHeaders, JsonObject([errors |-> <<[type |-> e]>>,
                                                         data |-> GqlData(c, info)]))
                        : e \in {"NOT_FOUND", "RATE_LIMITED"} }
                 : info \in GqlPageInfos(c) }

\* a page that reports hasNextPage = true although no manifest follows it
OverReports(r) ==
    /\ ~r.exc /\ r.status_code = 200 /\ In("data", r.body)
    /\ ~r.body.value.data.repository.isNull
    /\ LET info == r.body.value.data.repository.dependencyGraphManifests.pageInfo IN
       Get(info, "hasNextPage", FALSE) /\ info.endCursor >= Len(gqlPages)

\* a patient server sends at most quota rate-limit signals and over-reports
GqlServerSends(r) ==
    LET stalls == RateLimitSignal(r) \/ OverReports(r) IN
    /\ stalls /\ finite => quota > 0
    /\ quota' = IF stalls /\ finite THEN quota - 1 ELSE quota
    /\ UNCHANGED <<finite, dataVars>>

InitGql ==
    /\ InitCommon
    /\ fn = "get_graphql_license_cache"
    /\ pc = "loop"
    /\ finite = FALSE
    /\ url = NoUrl
    /\ orgPages = <<>>
    /\ gqlPages \in GqlListings

\* faulty variant: what was collected so far is returned
GqlAbort_Partial ==
    /\ Ends(ReturnValue(license_cache), "none")
    /\ UNCHANGED gqlVars

\* return {} (lines 235, 239, 267)
GqlAbort ==
    /\ Ends(ReturnValue(EmptyDict), "none")
    /\ UNCHANGED gqlVars

\* faulty variant: the cursor of the next query is not advanced
GqlMerge_SameCursor(data) ==
    LET manifests == data.repository.dependencyGraphManifests
        cache     == MergeManifests(license_cache, manifests.nodes)
    IN  /\ license_cache' = cache
        /\ manifests_after' = manifests_after
        /\ has_next_manifest' = Get(manifests.pageInfo, "hasNextPage", FALSE)
        /\ IF has_next_manifest'
           THEN /\ pc' = "loop" /\ slept' = <<>>
                /\ UNCHANGED <<raised, result>>
           ELSE Ends(ReturnValue(cache), "none")

\* faulty variant: the loop goes on whatever the page says about a next page
GqlMerge_IgnoresHasNext(data) ==
    LET manifests == data.repository.dependencyGraphManifests
        cache     == MergeManifests(license_cache, manifests.nodes)
    IN  /\ license_cache' = cache
        /\ manifests_after' = Get(manifests.pageInfo, "endCursor", NoCursor)
        /\ has_next_manifest' = TRUE
        /\ pc' = "loop" /\ slept' = <<>>
        /\ UNCHANGED <<raised, result>>

\* lines 241-263 and the loop test of line 204
GqlMerge(data) ==
    LET manifests == data.repository.dependencyGraphManifests
        cache     == MergeManifests(license_cache, manifests.nodes)
    IN  /\ license_cache' = cache
        /\ manifests_after' = Get(manifests.pageInfo, "endCursor", NoCursor)
        /\ has_next_manifest' = Get(manifests.pageInfo, "hasNextPage", FALSE)
        /\ IF has_next_manifest'
           THEN /\ pc' = "loop" /\ slept' = <<>>
                /\ UNCHANGED <<raised, result>>
           ELSE Ends(ReturnValue(cache), "none")

\* one iteration of the while loop of get_graphql_license_cache
get_graphql_license_cache ==
    /\ fn = "get_graphql_license_cache" /\ pc = "loop"
    /\ \E r \in GqlResponses(manifests_after) :
       \E t \in ClockReadings(r), j \in JitterDraws(r) :
         /\ GqlServerSends(r)
         /\ response' = r
         /\ IF r.exc
            THEN /\ GqlAbort
                 /\ UNCHANGED retryVars /\ NoDraws
            ELSE LET out == handle_api_retry(r, t) IN
                 IF out.raised = "KeyError"
                 THEN /\ Ends(result, "KeyError")
                      /\ UNCHANGED <<retryVars, gqlVars>> /\ NoDraws
                 ELSE IF out.raised = "JSONDecodeError"
                 THEN /\ GqlAbort
                      /\ UNCHANGED retryVars /\ NoDraws
                 ELSE IF out.should_retry
                 THEN /\ RetryWithBackoff(r, t, j, out)
                      /\ UNCHANGED gqlVars
                 ELSE /\ should_retry' = FALSE
                      /\ sleep_duration' = out.sleep_duration
                      /\ NoDraws
                      /\ IF r.status_code >= 400
                         THEN GqlAbort /\ UNCHANGED retries
                         ELSE /\ retries' = 0
                              /\ IF In("errors", r.body) /\ ~In("data", r.body)
                                 THEN GqlAbort
                                 ELSE IF \/ ~In("data", r.body)
                                         \/ Get(r.body.value.data, "repository", Null).isNull
                                 THEN GqlAbort
                                 ELSE GqlMerge(r.body.value.data)
    /\ UNCHANGED <<fn, orgVars, reposVars>>
    /\ UNCHANGED pipelineVars

\* the while loop of get_graphql_license_cache, with the scheduling of a
\* sequential program: an enabled iteration is eventually executed
InitFairGql ==
    /\ InitCommon
    /\ fn = "get_graphql_license_cache"
    /\ pc = "loop"
    /\ finite \in BOOLEAN
    /\ url = NoUrl
    /\ orgPages = <<>>
    /\ gqlPages \in GqlListings

FairGql ==
    /\ InitFairGql
    /\ [][get_graphql_license_cache]_vars
    /\ WF_vars(get_graphql_license_cache)

---------------------------------------------------------------------------
(* fetch_deps.parse_sbom_data.  A JSON object with optional keys is a       *)
(* function on the keys present; None is the string "None".                 *)

MaxPackages == 2         \* bound: packages of an SBOM document

Describes(id) == [relationshipType |-> "DESCRIBES", relatedSpdxElement |-> id]
DependsOn(id) == [relationshipType |-> "DEPENDS_ON", relatedSpdxElement |-> id]
DescribesNothing == [relationshipType |-> "DESCRIBES"]

PurlRef(locator) == [referenceType |-> "purl", referenceLocator |-> locator]
OtherRef == [referenceType |-> "cpe23Type", referenceLocator |-> "cpe:2.3:a"]

\* the repository's own package; a dependency with its purl and no asserted
\* license; the same name with a declared license; a package of a name only;
\* a package with an empty SPDXID and neither name nor license
PkgRepo   == [SPDXID |-> "SPDXRef-Repo", name |-> "org/a", versionInfo |-> "main",
              licenseConcluded |-> "NOASSERTION"]
PkgA      == [SPDXID |-> "SPDXRef-A", name |-> "a", versionInfo |-> "1.0",
              licenseConcluded |-> "NOASSERTION",
              externalRefs |-> <<OtherRef, PurlRef("pkg:npm/a"), PurlRef("pkg:pypi/a")>>]
PkgA_MIT  == [SPDXID |-> "SPDXRef-A2", name |-> "a", licenseConcluded |-> "MIT",
              externalRefs |-> <<PurlRef("https://example/a")>>]
PkgB_Bare == [name |-> "b"]
PkgNameless == [SPDXID |-> "", licenseConcluded |-> "N/A",
                externalRefs |-> <<[referenceType |-> "purl"]>>]

PackageUniverse == {PkgRepo, PkgA, PkgA_MIT, PkgB_Bare, PkgNameless}
PackageLists == UNION { [1 .. n -> PackageUniverse] : n \in 0 .. MaxPackages }

RelationshipLists ==
    { <<>>,
      <<Describes("SPDXRef-Repo")>>,
      <<DependsOn("SPDXRef-Repo"), Describes("SPDXRef-A")>>,
      <<Describes("SPDXRef-Repo"), Describes("SPDXRef-A")>>,
      <<DescribesNothing>> }

\* the sbom object of a document, with and without a relationships key
SbomObjects ==
    { [packages |-> ps, relationships |-> rs] : ps \in PackageLists, rs \in RelationshipLists }
    \cup { [packages |-> ps] : ps \in PackageLists }
    \cup { [relationships |-> <<Describes("SPDXRef-Repo")>>] }

\* what get_repo_sbom may hand over: None, an empty object, an object without
\* the sbom key, a document
SbomInputs ==
    { ReturnNone, ReturnValue(JsonObject(EmptyDict)), ReturnValue(ErrorBody) }
    \cup { ReturnValue(JsonObject([sbom |-> o])) : o \in SbomObjects }

\* cache entries as get_graphql_license_cache builds them (lines 254-259)
Entry(spdx, name, u, repo) == [spdxId |-> spdx, name |-> name, url |-> u, repoName |-> repo]

Caches ==
    { EmptyDict,
      "a" :> Entry("Apache-2.0", "Apache License 2.0", "u/apache", "o/a"),
      "a" :> Entry("NOASSERTION", "Other", "None", "o/a"),
      "a" :> Entry("NOASSERTION", "Custom", "u/custom", "None"),
      "a" :> Entry("None", "None", "None", "o/a"),
      "a" :> Entry("N/A", "Other", "", ""),
      ("N/A" :> Entry("BSD-3-Clause", "BSD", "u/bsd", "o/x"))
          @@ ("b" :> Entry("MIT", "MIT License", "u/mit", "o/b")) }

RepoUrls == {"https://github.com/org/a"}

\* truth value of an optional string: None and "" are false
Truthy(v) == v \notin {"None", ""}

\* lines 288-292: the target of the first DESCRIBES relationship, "" when none
repo_spdx_id(sbom) ==
    LET rels == Get(sbom, "relationships", <<>>)
        describes == { i \in DOMAIN rels :
                          Get(rels[i], "relationshipType", "None") = "DESCRIBES" }
    IN  IF describes = {} THEN ""
        ELSE Get(rels[CHOOSE i \in describes : \A j \in describes : i <= j],
                 "relatedSpdxElement", "None")

\* lines 302-307, 312: the locator of the first reference of type purl
Purl(package) ==
    LET refs == Get(package, "externalRefs", <<>>)
        purls == { i \in DOMAIN refs : Get(refs[i], "referenceType", "None") = "purl" }
    IN  IF purls = {} THEN "N/A"
        ELSE Get(refs[CHOOSE i \in purls : \A j \in purls : i <= j],
                 "referenceLocator", "N/A")

\* lines 308-311: re.search(r"pkg:([^/]+)/", purl) on the locators of the model
PurlManagers == ("pkg:npm/a" :> "npm") @@ ("pkg:pypi/a" :> "pypi")
PkgManager(purl) == Get(PurlManagers, purl, "N/A")

\* faulty variant: the license name Other is not looked at
Enrich_NoOther(license_info, name, cache) ==
    IF license_info \in {"N/A", "NOASSERTION"} /\ name \in DOMAIN cache
    THEN LET gql_data == cache[name] IN
         [ license_info |->
               IF Truthy(gql_data.spdxId) /\ gql_data.spdxId \notin {"N/A", "NOASSERTION"}
               THEN gql_data.spdxId ELSE license_info,
           dep_repo_name |-> IF Truthy(gql_data.repoName) THEN gql_data.repoName ELSE "N/A",
           dep_license_url |-> IF Truthy(gql_data.url) THEN gql_data.url ELSE "N/A" ]
    ELSE [ license_info |-> license_info, dep_repo_name |-> "N/A",
           dep_license_url |-> "N/A" ]

\* faulty variant: the two cross-reference fields are filled only with a license
\* that the entry replaces
Enrich_OnlyWhenReplaced(license_info, name, cache) ==
    IF /\ license_info \in {"N/A", "NOASSERTION"} /\ name \in DOMAIN cache
       /\ Truthy(cache[name].spdxId) /\ cache[name].spdxId \notin {"N/A", "NOASSERTION"}
    THEN [ license_info |-> cache[name].spdxId,
           dep_repo_name |-> IF Truthy(cache[name].repoName) THEN cache[name].repoName
                             ELSE "N/A",
           dep_license_url |-> IF Truthy(cache[name].url) THEN cache[name].url ELSE "N/A" ]
    ELSE [ license_info |->
               IF /\ license_info \in {"N/A", "NOASSERTION"} /\ name \in DOMAIN cache
                  /\ cache[name].spdxId = "NOASSERTION" /\ cache[name].name = "Other"
               THEN "NOASSERTION (Other)" ELSE license_info,
           dep_repo_name |-> "N/A", dep_license_url |-> "N/A" ]

\* faulty variant: the cache is consulted whatever the declared license
Enrich_Always(license_info, name, cache) ==
    IF name \in DOMAIN cache
    THEN LET gql_data == cache[name] IN
         [ license_info |->
               IF Truthy(gql_data.spdxId) /\ gql_data.spdxId \notin {"N/A", "NOASSERTION"}
               THEN gql_data.spdxId
               ELSE IF gql_data.spdxId = "NOASSERTION" /\ gql_data.name = "Other"
               THEN "NOASSERTION (Other)"
               ELSE license_info,
           dep_repo_name |-> IF Truthy(gql_data.repoName) THEN gql_data.repoName ELSE "N/A",
           dep_license_url |-> IF Truthy(gql_data.url) THEN gql_data.url ELSE "N/A" ]
    ELSE [ license_info |-> license_info, dep_repo_name |-> "N/A",
           dep_license_url |-> "N/A" ]

\* lines 314-330: the license and the two cross-reference fields of a row
Enrich(license_info, name, cache) ==
    IF license_info \in {"N/A", "NOASSERTION"} /\ name \in DOMAIN cache
    THEN LET gql_data == cache[name]
             gql_spdx == gql_data.spdxId
             gql_name == gql_data.name
             gql_url  == gql_data.url
         IN  [ license_info |->
                   IF Truthy(gql_spdx) /\ gql_spdx \notin {"N/A", "NOASSERTION", "None"}
                   THEN gql_spdx
                   ELSE IF gql_spdx = "NOASSERTION" /\ gql_name = "Other"
                   THEN "NOASSERTION (Other)"
                   ELSE license_info,
               dep_repo_name |-> IF Truthy(gql_data.repoName) THEN gql_data.repoName
                                 ELSE "N/A",
               dep_license_url |-> IF Truthy(gql_url) THEN gql_url ELSE "N/A" ]
    ELSE [ license_info |-> license_info, dep_repo_name |-> "N/A",
           dep_license_url |-> "N/A" ]

\* lines 298-341: the row of one package
Row(package, u, cache) ==
    LET name == Get(package, "name", "N/A")
        e    == Enrich(Get(package, "licenseConcluded", "N/A"), name, cache)
        purl == Purl(package)
    IN  [ name |-> name,
          version |-> Get(package, "versionInfo", "N/A"),
          repo_url |-> u,
          license_info |-> e.license_info,
          purl |-> purl,
          pkg_manager |-> PkgManager(purl),
          dep_repo_name |-> e.dep_repo_name,
          dep_license_url |-> e.dep_license_url ]

\* faulty variant: the row is put in front of the rows collected
AppendRow_InFront(deps, package, self_id, u, cache) ==
    IF Get(package, "SPDXID", "None") = self_id
    THEN deps
    ELSE <<Row(package, u, cache)>> \o deps

\* lines 294-341: one turn of the loop over the packages
AppendRow(deps, package, self_id, u, cache) ==
    IF Get(package, "SPDXID", "None") = self_id
    THEN deps
    ELSE Append(deps, Row(package, u, cache))

RECURSIVE PackageLoop(_, _, _, _, _)
PackageLoop(deps, packages, self_id, u, cache) ==
    IF packages = <<>> THEN deps
    ELSE PackageLoop(AppendRow(deps, Head(packages), self_id, u, cache),
                     Tail(packages), self_id, u, cache)

\* not sbom_data (line 282): None, {} and [] are false
Falsy(data) ==
    \/ data = ReturnNone
    \/ data.value.type = "list" /\ data.value.value = <<>>
    \/ data.value.type = "object" /\ DOMAIN data.value.value = {}

parse_sbom_data(data, u, cache) ==
    IF Falsy(data) \/ ~In("sbom", data.value)
    THEN <<>>
    ELSE LET sbom == data.value.value.sbom IN
         PackageLoop(<<>>, Get(sbom, "packages", <<>>), repo_spdx_id(sbom), u, cache)

InitParse ==
    /\ InitLoops
    /\ fn = "parse_sbom_data"
    /\ pc = "call"
    /\ finite = FALSE
    /\ url = NoUrl
    /\ orgPages = <<>>
    /\ gqlPages = <<>>
    /\ sbom_data \in SbomInputs
    /\ repo_url \in RepoUrls
    /\ graphql_cache \in Caches
    /\ dependencies = <<>>
    /\ InitNoMain

\* one call of parse_sbom_data
parse ==
    /\ fn = "parse_sbom_data" /\ pc = "call"
    /\ dependencies' = parse_sbom_data(sbom_data, repo_url, graphql_cache)
    /\ pc' = "returned"
    /\ UNCHANGED <<fn, response, raised, slept, result, retryVars, drawVars, orgVars,
                   reposVars, gqlVars, dataVars, finite, quota, sbom_data, repo_url,
                   graphql_cache, mainVars>>

SpecParse == InitParse /\ [][parse]_vars

---------------------------------------------------------------------------
(* fetch_deps.main: the pipeline over the repositories of the organization. *)
(* A repository is the object of the listing, a function on the keys        *)
(* present.  The calls of get_graphql_license_cache and get_repo_sbom are   *)
(* taken whole: they end as the loops above end, with a value or with the   *)
(* KeyError of handle_api_retry.                                            *)

MaxRepos == 3            \* bound: repositories of the listing
MaxStart == 2            \* bound: --start-index

PROACTIVE_DELAY_SECONDS == 2

\* two repositories to process (one with capitals in its name), an archived one,
\* one without html_url, one whose name has no slash
RepoA        == [full_name |-> "org/a", html_url |-> "https://github.com/org/a",
                 archived |-> FALSE]
RepoB        == [full_name |-> "Org/B", html_url |-> "https://github.com/Org/B",
                 archived |-> FALSE]
RepoArchived == [full_name |-> "org/c", html_url |-> "https://github.com/org/c",
                 archived |-> TRUE]
RepoNoUrl    == [full_name |-> "org/d", archived |-> FALSE]
RepoFlat     == [full_name |-> "flat", html_url |-> "https://github.com/flat"]

RepoUniverse == {RepoA, RepoB, RepoArchived, RepoNoUrl, RepoFlat}

\* the listings: repositories in any order, none twice
RepoListings ==
    { l \in UNION { [1 .. n -> RepoUniverse] : n \in 0 .. MaxRepos } :
         \A j, k \in DOMAIN l : l[j] = l[k] => j = k }

\* str.lower() on the strings above
LowerCase == "Org/B" :> "org/b"
Lower(str) == Get(LowerCase, str, str)

\* the order of Python's strings (by code point) on the strings above
CodePointOrder == <<"", "Org/B", "flat", "org/a", "org/b", "org/c", "org/d">>
Rank(str) == CHOOSE n \in DOMAIN CodePointOrder : CodePointOrder[n] = str

\* str.split('/') on the names above
SplitName ==
    ("org/a" :> <<"org", "a">>) @@ ("Org/B" :> <<"Org", "B">>) @@ ("org/c" :> <<"org", "c">>)
    @@ ("org/d" :> <<"org", "d">>) @@ ("flat" :> <<"flat">>)

\* faulty variant: the names are compared as they are
SortKey_CaseSensitive(repo) == Get(repo, "full_name", "")

\* line 409: key=lambda r: r.get("full_name", "").lower()
SortKey(repo) == Lower(Get(repo, "full_name", ""))

\* list.sort is stable: an item goes behind the items of the same key
RECURSIVE Insert(_, _)
Insert(repo, sorted) ==
    IF sorted = <<>> THEN <<repo>>
    ELSE IF Rank(SortKey(repo)) < Rank(SortKey(Head(sorted)))
         THEN <<repo>> \o sorted
         ELSE <<Head(sorted)>> \o Insert(repo, Tail(sorted))

RECURSIVE Sort(_)
Sort(repos) ==
    IF repos = <<>> THEN <<>>
    ELSE Insert(repos[Len(repos)], Sort(SubSeq(repos, 1, Len(repos) - 1)))

\* what a call ends with when handle_api_retry raises
Raises == [tag |-> "KeyError"]

\* the SBOM documents of the server
DocA == JsonObject([sbom |-> [packages |-> <<PkgRepo, PkgA>>,
                              relationships |-> <<Describes("SPDXRef-Repo")>>]])
DocB == JsonObject([sbom |-> [packages |-> <<PkgA_MIT, PkgB_Bare>>]])

CacheOutcomes ==
    { ReturnValue(EmptyDict),
      ReturnValue("a" :> Entry("Apache-2.0", "Apache License 2.0", "u/apache", "o/a")),
      Raises }
SbomOutcomes == { ReturnNone, ReturnValue(DocA), ReturnValue(DocB), Raises }

\* the server answers the same for the same repository
Servers ==
    [ {"org/a", "Org/B"} -> [graphql_cache : CacheOutcomes, sbom_data : SbomOutcomes] ]

\* the header row of the file (lines 425-434) and a row of an earlier run
Header ==
    [ name |-> "dependency_name", version |-> "dependency_version",
      repo_url |-> "repository_url", license_info |-> "license",
      purl |-> "package_url", pkg_manager |-> "package_manager",
      dep_repo_name |-> "dependency_repo_name",
      dep_license_url |-> "dependency_license_url" ]
EarlierRow == [Header EXCEPT !.name = "earlier"]

\* lines 418-435: mode 'w' empties the file and the header is written, mode 'a'
\* keeps what is there
OpenFile(file, start) == IF start > 0 THEN file ELSE <<Header>>

\* lines 443-457: the iterations that end with continue
Skipped(repo) ==
    \/ ~Truthy(Get(repo, "full_name", "None"))
    \/ ~Truthy(Get(repo, "html_url", "None"))
    \/ Get(repo, "archived", FALSE)
    \/ Len(SplitName[repo.full_name]) # 2

\* faulty variant: the rows are produced before the SBOM is fetched
NextPhase_EnrichFirst(phase, data) ==
    IF phase = "cache" THEN "enrich"
    ELSE IF phase = "enrich" THEN "sbom"
    ELSE "sleep"

\* lines 459-474: the order of the calls for one repository
NextPhase(phase, data) ==
    IF phase = "cache" THEN "sbom"
    ELSE IF phase = "sbom" /\ ~Falsy(data) THEN "enrich"
    ELSE "sleep"

Event(phase) == [phase |-> phase, index |-> idx]

InitMain ==
    /\ InitLoops
    /\ fn = "main"
    /\ pc = "call"
    /\ finite = FALSE
    /\ url = NoUrl
    /\ gqlPages = <<>>
    /\ \E listing \in RepoListings : orgPages = <<listing>>
    /\ server \in Servers
    /\ start_index \in 0 .. MaxStart
    /\ idx = 0
    /\ csvfile \in {<<>>, <<Header, EarlierRow>>}
    /\ events = <<>>
    /\ sbom_data = ReturnNone
    /\ repo_url = "None"
    /\ graphql_cache = EmptyDict
    /\ dependencies = <<>>

mainFrame ==
    UNCHANGED <<fn, response, result, retryVars, drawVars, url, page, reposVars, gqlVars,
                dataVars, finite, quota, start_index, server>>

\* a call ends with KeyError: main has no handler for it
MainRaises ==
    /\ pc' = "raised"
    /\ raised' = "KeyError"

\* lines 408-435: the listing, the sort, the test of the start index, the file
main_list ==
    /\ fn = "main" /\ pc = "call"
    /\ \/ /\ MainRaises
          /\ UNCHANGED <<all_repos, idx, csvfile>>
       \/ /\ all_repos' = Sort(Flatten(orgPages))
          /\ raised' = raised
          /\ IF start_index >= Len(all_repos')
             THEN pc' = "returned" /\ UNCHANGED <<idx, csvfile>>
             ELSE /\ pc' = "repo"
                  /\ idx' = start_index
                  /\ csvfile' = OpenFile(csvfile, start_index)
    /\ UNCHANGED <<slept, events, parseVars>>
    /\ mainFrame

\* the for statement takes the next repository, or the loop is over
Continue ==
    IF idx + 1 < Len(all_repos)
    THEN pc' = "repo" /\ idx' = idx + 1
    ELSE pc' = "returned" /\ idx' = idx

\* lines 439-457: the head of the loop body
main_repo ==
    /\ fn = "main" /\ pc = "repo"
    /\ LET repo == all_repos[idx + 1] IN
       IF Skipped(repo)
       THEN Continue /\ repo_url' = Get(repo, "html_url", "None")
       ELSE pc' = "cache" /\ idx' = idx /\ repo_url' = repo.html_url
    /\ UNCHANGED <<raised, slept, all_repos, csvfile, events, sbom_data, graphql_cache,
                   dependencies>>
    /\ mainFrame

\* faulty variant: the entries of the repositories before are kept
CacheOf_Merged(previous, outcome) == outcome.value @@ previous

\* line 459: graphql_cache is bound to the dictionary the call returns
CacheOf(previous, outcome) == outcome.value

\* line 459: the license cache of the repository is built
main_cache ==
    /\ fn = "main" /\ pc = "cache"
    /\ events' = Append(events, Event("cache"))
    /\ LET outcome == server[all_repos[idx + 1].full_name].graphql_cache IN
       IF outcome = Raises
       THEN MainRaises /\ graphql_cache' = graphql_cache
       ELSE /\ graphql_cache' = CacheOf(graphql_cache, outcome)
            /\ pc' = NextPhase("cache", sbom_data)
            /\ raised' = raised
    /\ UNCHANGED <<slept, all_repos, idx, csvfile, sbom_data, repo_url, dependencies>>
    /\ mainFrame

\* line 461: the SBOM of the repository is fetched
main_sbom ==
    /\ fn = "main" /\ pc = "sbom"
    /\ events' = Append(events, Event("sbom"))
    /\ LET outcome == server[all_repos[idx + 1].full_name].sbom_data IN
       IF outcome = Raises
       THEN MainRaises /\ sbom_data' = sbom_data
       ELSE /\ sbom_data' = outcome
            /\ pc' = NextPhase("sbom", outcome)
            /\ raised' = raised
    /\ UNCHANGED <<slept, all_repos, idx, csvfile, repo_url, graphql_cache, dependencies>>
    /\ mainFrame

\* lines 463-469: the rows of the repository are produced and written
main_enrich ==
    /\ fn = "main" /\ pc = "enrich"
    /\ events' = Append(events, Event("enrich"))
    /\ dependencies' = parse_sbom_data(sbom_data, repo_url, graphql_cache)
    /\ csvfile' = csvfile \o dependencies'
    /\ pc' = NextPhase("enrich", sbom_data)
    /\ UNCHANGED <<raised, slept, all_repos, idx, sbom_data, repo_url, graphql_cache>>
    /\ mainFrame

\* lines 473-474: the delay between two repositories, and the next iteration
main_sleep ==
    /\ fn = "main" /\ pc = "sleep"
    /\ slept' = IF idx + 1 < Len(all_repos)
                THEN Append(slept, Seconds(PROACTIVE_DELAY_SECONDS))
                ELSE slept
    /\ Continue
    /\ UNCHANGED <<raised, all_repos, csvfile, events, parseVars>>
    /\ mainFrame

main == main_list \/ main_repo \/ main_cache \/ main_sbom \/ main_enrich \/ main_sleep

SpecMain == InitMain /\ [][main]_vars

\* A run from index 0 into an empty file that the user interrupts once, in the
\* loop over the repositories, and resumes with the index reported; the calls of
\* these runs return (no KeyError).
InitResume ==
    /\ InitMain
    /\ start_index = 0
    /\ csvfile = <<>>
    /\ \A name \in DOMAIN server :
          server[name].graphql_cache # Raises /\ server[name].sbom_data # Raises

Interrupted == \E n \in DOMAIN events : events[n].phase = "interrupt"

\* lines 479-481: KeyboardInterrupt in the loop; the message names index i
main_interrupt ==
    /\ fn = "main" /\ pc \in {"repo", "cache", "sbom", "enrich", "sleep"}
    /\ ~Interrupted
    /\ pc' = "interrupted"
    /\ raised' = "KeyboardInterrupt"
    /\ result' = ReturnValue(idx)
    /\ events' = Append(events, Event("interrupt"))
    /\ UNCHANGED <<fn, response, slept, retryVars, drawVars, orgVars, reposVars, gqlVars,
                   dataVars, finite, quota, parseVars, start_index, idx, csvfile, server>>

\* the user runs main again with --start-index set to the index reported; the
\* file is the one the interrupted run left
main_resume ==
    /\ fn = "main" /\ pc = "interrupted"
    /\ start_index' = result.value
    /\ pc' = "call"
    /\ raised' = "none"
    /\ result' = Pending
    /\ all_repos' = <<>>
    /\ idx' = 0
    /\ slept' = <<>>
    /\ sbom_data' = ReturnNone
    /\ repo_url' = "None"
    /\ graphql_cache' = EmptyDict
    /\ dependencies' = <<>>
    /\ UNCHANGED <<fn, response, retryVars, drawVars, url, page, reposVars, gqlVars,
                   dataVars, finite, quota, csvfile, events, server>>

SpecResume == InitResume /\ [][main \/ main_interrupt \/ main_resume]_vars

---------------------------------------------------------------------------
(* fetch_repos.main: the inventory of the repositories.  Of a repository   *)
(* the fields full_name, html_url and archived are modelled; of a row the   *)
(* columns html_url and is_archived.                                        *)

\* line 378: key=lambda r: r['full_name']
repos_sort_key(repo) == repo.full_name

RECURSIVE ReposInsert(_, _)
ReposInsert(repo, sorted) ==
    IF sorted = <<>> THEN <<repo>>
    ELSE IF Rank(repos_sort_key(repo)) < Rank(repos_sort_key(Head(sorted)))
         THEN <<repo>> \o sorted
         ELSE <<Head(sorted)>> \o ReposInsert(repo, Tail(sorted))

RECURSIVE ReposSort(_)
ReposSort(repos) ==
    IF repos = <<>> THEN <<>>
    ELSE ReposInsert(repos[Len(repos)], ReposSort(SubSeq(repos, 1, Len(repos) - 1)))

InitInventory ==
    /\ InitLoops
    /\ fn = "fetch_repos.main"
    /\ pc = "call"
    /\ finite = FALSE
    /\ url = NoUrl
    /\ gqlPages = <<>>
    /\ \E listing \in RepoListings : orgPages = <<listing>>
    /\ server = [ name \in {"org/a", "Org/B"} |->
                    [graphql_cache |-> ReturnValue(EmptyDict), sbom_data |-> ReturnNone] ]
    /\ start_index \in 0 .. MaxStart
    /\ idx = 0
    /\ csvfile \in {<<>>, <<Header, EarlierRow>>}
    /\ events = <<>>
    /\ sbom_data = ReturnNone
    /\ repo_url = "None"
    /\ graphql_cache = EmptyDict
    /\ dependencies = <<>>

\* lines 370-391: the listing, the sort, the file and its header
repos_main_list ==
    /\ fn = "fetch_repos.main" /\ pc = "call"
    /\ all_repos' = ReposSort(Flatten(orgPages))
    /\ csvfile' = OpenFile(csvfile, start_index)
    /\ IF start_index < Len(all_repos')
       THEN pc' = "repo" /\ idx' = start_index
       ELSE pc' = "returned" /\ idx' = idx
    /\ UNCHANGED <<raised, slept, events, parseVars>>
    /\ mainFrame

\* lines 394-465: one repository from the start index on; a field the
\* listing lacks raises KeyError, else the row is written
repos_main_row ==
    /\ fn = "fetch_repos.main" /\ pc = "repo"
    /\ LET repo == all_repos[idx + 1] IN
       IF {"html_url", "archived"} \subseteq DOMAIN repo
       THEN /\ csvfile' = Append(csvfile, [html_url |-> repo.html_url,
                                           is_archived |-> repo.archived])
            /\ events' = Append(events, Event("row"))
            /\ raised' = raised
            /\ Continue
       ELSE /\ MainRaises
            /\ UNCHANGED <<idx, csvfile, events>>
    /\ UNCHANGED <<slept, all_repos, parseVars>>
    /\ mainFrame

SpecInventory == InitInventory /\ [][repos_main_list \/ repos_main_row]_vars

---------------------------------------------------------------------------
(* One call after the other: when a request loop has returned, main calls   *)
(* get_graphql_license_cache or get_repo_sbom (lines 459, 461), whose       *)
(* locals are set by the statements before its loop.  events records, per   *)
(* call, the function called and the value of retries the call before left. *)

MaxCalls == 2            \* bound: calls that follow the first one

\* the server in a sequence of calls: one listing, one manifest listing, and
\* at most quota rate-limit signals over all the calls
CallListing   == << <<"r2", "r1">>, <<"r1">> >>
CallManifests == << << <<DepA_MIT, DepB_NoLic>>, <<DepA_NoRepo>> >> >>

InitCalls ==
    /\ InitCommon
    /\ fn \in {"get_all_organization_repos", "get_repo_sbom", "get_graphql_license_cache"}
    /\ pc = "loop"
    /\ finite = TRUE
    /\ url = IF fn = "get_all_organization_repos" THEN FirstUrl ELSE NoUrl
    /\ orgPages = CallListing
    /\ gqlPages = CallManifests

\* faulty variant: the attempt counter is the one the call before left
Prologue_KeepsRetries ==
    /\ UNCHANGED retries
    /\ license_cache' = EmptyDict
    /\ manifests_after' = NoCursor
    /\ has_next_manifest' = TRUE

\* lines 157-159 (get_repo_sbom) and 196-203 (get_graphql_license_cache): the
\* locals before the loop
Prologue ==
    /\ retries' = 0
    /\ license_cache' = EmptyDict
    /\ manifests_after' = NoCursor
    /\ has_next_manifest' = TRUE

\* the next call of main
call_next ==
    /\ fn \in {"get_all_organization_repos", "get_repo_sbom", "get_graphql_license_cache"}
    /\ pc = "returned"
    /\ Len(events) < MaxCalls
    /\ fn' \in {"get_repo_sbom", "get_graphql_license_cache"}
    /\ pc' = "loop"
    /\ Prologue
    /\ events' = Append(events, [phase |-> fn', left |-> retries])
    /\ response' = NoResponse
    /\ result' = Pending
    /\ slept' = <<>>
    /\ should_retry' = FALSE
    /\ sleep_duration' = NoRetrySleep
    /\ NoDraws
    /\ UNCHANGED <<raised, orgVars, reposVars, dataVars, finite, quota, parseVars,
                   start_index, idx, csvfile, server>>

SpecCalls ==
    InitCalls /\ [][get_repo_sbom \/ get_all_organization_repos
                    \/ get_graphql_license_cache \/ call_next]_vars

---------------------------------------------------------------------------
(* Specifications *)

Init ==
    \/ InitRetry \/ InitSbom \/ InitOrg \/ InitPaginated \/ InitGql \/ InitParse
    \/ InitMain

Next ==
    \/ classify
    \/ get_repo_sbom
    \/ get_all_organization_repos
    \/ make_api_request
    \/ get_graphql_license_cache
    \/ parse
    \/ main

Spec == Init /\ [][Next]_vars

\* handle_api_retry alone, on every response
SpecRetry == InitRetry /\ [][classify]_vars

\* the three request loops of fetch_deps
InitDeps == InitSbom \/ InitOrg \/ InitGql
NextDeps == get_repo_sbom \/ get_all_organization_repos \/ get_graphql_license_cache
SpecDeps == InitDeps /\ [][NextDeps]_vars

SpecSbom == InitSbom /\ [][get_repo_sbom]_vars
SpecOrg  == InitOrg /\ [][get_all_organization_repos]_vars
SpecGql  == InitGql /\ [][get_graphql_license_cache]_vars

\* the request loop of fetch_repos
SpecRepos == InitPaginated /\ [][make_api_request]_vars

---------------------------------------------------------------------------
(* Vocabulary of the claims *)

DepsLoops == {"get_all_organization_repos", "get_repo_sbom", "get_graphql_license_cache"}
BackoffLoops == {"get_repo_sbom", "get_graphql_license_cache"}
RestWalkers == {"get_all_organization_repos", "get_paginated_data"}
Ended == pc \in {"returned", "raised"}

\* primary exhaustion with its reset time
PrimaryLimit(r) ==
    /\ ~r.exc /\ r.status_code = 403
    /\ Get(r.headers, Remaining, 1) = 0 /\ Reset \in DOMAIN r.headers

\* a rate-limit response whose wait a reset or a Retry-After header dictates
HeaderDictated(r) ==
    \/ PrimaryLimit(r)
    \/ ~r.exc /\ r.status_code \in {403, 429} /\ RetryAfter \in DOMAIN r.headers

\* a rate-limit response that no header times: a 429 without Retry-After, or a
\* RATE_LIMITED error in a 200 body
ExponentialSignal(r) ==
    /\ ~r.exc
    /\ \/ r.status_code = 429 /\ RetryAfter \notin DOMAIN r.headers
       \/ r.status_code = 200 /\ RateLimitSignal(r)

\* a rate-limit response as the endpoint of the loop sends it: the RATE_LIMITED
\* error body belongs to the GraphQL endpoint only
RateLimited(r) ==
    /\ RateLimitSignal(r)
    /\ r.status_code = 200 => fn = "get_graphql_license_cache"

\* a request that fails fatally: a network-level exception or a non-rate-limit error status
Fatal(r) == r.exc \/ (r.status_code >= 400 /\ ~RateLimitSignal(r))

\* a page of the REST listing, and the last one
ListPage(r) == ~r.exc /\ r.status_code = 200 /\ r.body.type = "list"
LastListPage(r) == ListPage(r) /\ "next" \notin DOMAIN r.links

---------------------------------------------------------------------------
(* Claims *)

\* C2: in each request loop of fetch_deps, a response with status 403,
\* X-RateLimit-Remaining = 0 and X-RateLimit-Reset = T makes the loop sleep exactly
\* max(0, T - now) + 5 seconds and go round again with the same url / cursor,
\* nothing collected and nothing returned.
PrimaryLimitStep ==
    (fn \in DepsLoops /\ PrimaryLimit(response')) =>
        /\ slept' = << Max(0, Seconds(response'.headers[Reset]) - now') + Seconds(5) >>
        /\ pc' = "loop"
        /\ result' = Pending
        /\ UNCHANGED <<url, page, all_repos, license_cache, manifests_after,
                       has_next_manifest>>

C2_PrimaryLimitWaitsAndReissues == [][PrimaryLimitStep]_vars

\* C2 witness: the cache build, one page in, has slept until a reset that lay ahead
C2_Witness ==
    /\ fn = "get_graphql_license_cache" /\ pc = "loop"
    /\ PrimaryLimit(response) /\ response.headers[Reset] = MaxHeader
    /\ manifests_after = 1
    /\ now > 0
    /\ slept = << Seconds(MaxHeader) - now + Seconds(5) >>

\* C3: a rate-limit response is never surfaced as a failure or a truncated result:
\* in every request loop of both scripts the loop sleeps and goes round again.
C3_RateLimitNeverEndsLoop ==
    (fn # "handle_api_retry" /\ RateLimited(response)) =>
        (pc = "loop" /\ slept # <<>>)

\* C4: the i-th consecutive exponential-backoff retry of get_repo_sbom and
\* get_graphql_license_cache waits min(3600, 5 * 2^i) + jitter, jitter in [0, 1):
\* the jitter is added after the cap; every such wait is below 3601.
C4_JitterAfterCap ==
    (fn \in BackoffLoops /\ pc = "loop" /\ ExponentialSignal(response)) =>
        /\ slept = << Min(Seconds(3600), Seconds(5 * Pow2(retries - 1))) + jitter >>
        /\ jitter \in 0 .. (TicksPerSecond - 1)
        /\ slept[1] < Seconds(3601)

\* C5: in get_repo_sbom and get_graphql_license_cache the attempt counter is a
\* natural number; an exponential-backoff retry adds exactly 1 to it; a retry whose
\* wait a reset or Retry-After header dictates does not increase it; it is 0 after
\* a successful response, so the first exponential wait after a success is
\* 5 * 2^0 plus jitter.
AttemptCounterStep ==
    fn \in BackoffLoops =>
        /\ retries' \in Nat
        /\ (pc' = "loop" /\ ExponentialSignal(response')) => retries' = retries + 1
        /\ (pc' = "loop" /\ HeaderDictated(response')) => retries' <= retries
        /\ (pc' = "loop" /\ ~RateLimitSignal(response')) => retries' = 0
        /\ (pc' = "loop" /\ ExponentialSignal(response') /\ ~RateLimitSignal(response))
              => slept' = << Seconds(5) + jitter' >>

C5_AttemptCounter == [][AttemptCounterStep]_vars

\* C5 witness: after a processed page reset a counter that had grown, the cache
\* build is rate limited without a header and waits 5 * 2^0 seconds plus jitter
C5_Witness ==
    /\ fn = "get_graphql_license_cache" /\ pc = "loop"
    /\ manifests_after = 1
    /\ ExponentialSignal(response)
    /\ retries = 1
    /\ slept = << Seconds(5) + jitter >>

\* C6: get_all_organization_repos returns the concatenation of the items of the
\* pages P1..Pn in order, each page once, whatever rate-limited responses come
\* before any page, and issues no request after the page without a next link.
C6_ListingIsConcatenation ==
    fn = "get_all_organization_repos" =>
        /\ pc = "loop" =>
              /\ url \in 1 .. Len(orgPages)
              /\ all_repos = Flatten(SubSeq(orgPages, 1, url - 1))
        /\ LastListPage(response) =>
              /\ pc = "returned"
              /\ result = ReturnValue(Flatten(orgPages))
              /\ ~ENABLED get_all_organization_repos

\* C6 witness: a listing of two pages, the second one not empty, has been returned
C6_Witness ==
    /\ fn = "get_all_organization_repos" /\ pc = "returned"
    /\ LastListPage(response)
    /\ Len(orgPages) = 2 /\ orgPages[1] # <<>> /\ orgPages[2] # <<>>
    /\ result = ReturnValue(orgPages[1] \o orgPages[2])

\* C7: when a request of the listing fails fatally at page k, both REST walkers end
\* at once without raising and return the items of pages 1 .. k-1.
C7_FatalEndsListing ==
    (fn \in RestWalkers /\ Fatal(response)) =>
        /\ pc = "returned"
        /\ result = ReturnValue(Flatten(SubSeq(orgPages, 1, url - 1)))

\* C8: get_graphql_license_cache always terminates, whatever the server answers
\* (rate limited at every request, hasNextPage true for ever): every call ends.
C8_AlwaysTerminates == <>(pc # "loop")

\* the requests a call can still make against a patient server: the rate-limit
\* responses and over-reporting pages the server still sends, and the manifest
\* pages not yet processed
RequestBudget == quota + (Len(gqlPages) - manifests_after)

ConsumesBudget ==
    (fn = "get_graphql_license_cache" /\ finite /\ pc = "loop") =>
        /\ RequestBudget' \in Nat
        /\ pc' # "loop" \/ RequestBudget' < RequestBudget

\* C8, amended: against a server that sends only finitely many rate-limit
\* responses and pages reporting hasNextPage beyond the last manifest, the call
\* terminates: every request either ends the call or uses up one of those
\* responses or one manifest page, so the call ends within RequestBudget requests.
C8_TerminatesWhenServerRelents == [][ConsumesBudget]_vars

\* C8 witness: a server that used up its rate-limit responses and over-reports
\* has let the cache build return a cache that is not empty
C8_Witness ==
    /\ fn = "get_graphql_license_cache" /\ finite /\ quota = 0
    /\ pc = "returned"
    /\ result # ReturnValue(EmptyDict)

\* a response that makes the cache build fail: a network-level failure, an error
\* status that is no rate limit, errors without data, no repository node
GqlFailure(r) ==
    \/ Fatal(r)
    \/ /\ r.status_code = 200 /\ r.body.type = "object" /\ ~RateLimitSignal(r)
       /\ \/ In("errors", r.body) /\ ~In("data", r.body)
          \/ In("data", r.body) /\ r.body.value.data.repository.isNull

\* a processed page after which no page is to follow
FinalPage(r) ==
    /\ ~r.exc /\ r.status_code = 200 /\ In("data", r.body) /\ ~RateLimitSignal(r)
    /\ ~r.body.value.data.repository.isNull
    /\ ~Get(r.body.value.data.repository.dependencyGraphManifests.pageInfo,
            "hasNextPage", FALSE)

\* C9: get_graphql_license_cache never returns a partial cache: a failing response
\* on any page makes it return the empty cache, whatever earlier pages added; a
\* cache that is not empty is returned only after every page was processed.
C9_NoPartialCache ==
    fn = "get_graphql_license_cache" =>
        /\ GqlFailure(response) => (pc = "returned" /\ result = ReturnValue(EmptyDict))
        /\ (pc = "returned" /\ result # ReturnValue(EmptyDict)) =>
              /\ FinalPage(response)
              /\ manifests_after = Len(gqlPages)
              /\ result = ReturnValue(license_cache)

\* C9 witness: a failure after entries were collected, and the empty cache returned
C9_Witness ==
    /\ fn = "get_graphql_license_cache" /\ pc = "returned"
    /\ GqlFailure(response)
    /\ manifests_after = 1
    /\ license_cache # EmptyDict
    /\ result = ReturnValue(EmptyDict)

\* the dependency nodes of the first n pages, in processing order: pages, then
\* manifests of a page, then nodes of a manifest
ProcessedDeps(n) == Flatten(Flatten(SubSeq(gqlPages, 1, n)))

\* the mapping in which each package name that is not empty has the entry of the
\* last node that carries it
LastWins(deps) ==
    LET named == { i \in DOMAIN deps : ~deps[i].isNull /\ deps[i].packageName # "" }
        names == { deps[i].packageName : i \in named }
        last(n) == CHOOSE i \in named :
                      /\ deps[i].packageName = n
                      /\ \A k \in named : deps[k].packageName = n => k <= i
    IN  [ n \in names |-> CacheEntry(deps[last(n)]) ]

\* C10: the cache returned maps each package name seen to the entry of the last
\* dependency node with that name, in processing order (pages, manifests, nodes);
\* nodes with an empty name add no entry.
C10_LastWriteWins ==
    fn = "get_graphql_license_cache" =>
        /\ pc = "loop" => license_cache = LastWins(ProcessedDeps(manifests_after))
        /\ (pc = "returned" /\ FinalPage(response)) =>
              /\ result = ReturnValue(LastWins(ProcessedDeps(Len(gqlPages))))
              /\ "" \notin DOMAIN result.value

\* C10 witness: package a occurs in three nodes over two pages; the cache
\* returned has the entry of the last one, and no entry for the unnamed node
C10_Witness ==
    /\ fn = "get_graphql_license_cache" /\ pc = "returned"
    /\ FinalPage(response)
    /\ gqlPages = << << <<DepA_MIT, DepB_NoLic>>, <<DepA_NoRepo>> >>,
                     << <<DepA_NoRepo, DepUnnamed, DepA_MIT>> >> >>
    /\ DOMAIN result.value = {"a", "b"}
    /\ result.value["a"] = CacheEntry(DepA_MIT)

\* C11: in get_repo_sbom every response with status 404 or 403 yields None at
\* once, whatever headers it carries: no sleep and no further request.
C11_DisabledGraphYieldsAbsent ==
    (fn = "get_repo_sbom" /\ response.status_code \in {403, 404}) =>
        (pc = "returned" /\ result = ReturnNone /\ slept = <<>>)

\* C11, amended: every 404, and every 403 that is no rate-limit signal (neither
\* X-RateLimit-Remaining = 0 nor a Retry-After header), yields None at once,
\* without a sleep and without a further request.
C11_DisabledGraphUnlessRateLimited ==
    (fn = "get_repo_sbom" /\ response.status_code \in {403, 404}
                          /\ ~RateLimitSignal(response)) =>
        /\ pc = "returned" /\ result = ReturnNone /\ slept = <<>>
        /\ ~ENABLED get_repo_sbom

\* C11 witness: a 404 that carries every rate-limit header has ended the call
C11_Witness ==
    /\ fn = "get_repo_sbom" /\ pc = "returned"
    /\ response.status_code = 404 /\ response.headers = AllHeaders
    /\ result = ReturnNone /\ slept = <<>>

\* C12: get_repo_sbom never raises: a status that is neither 2xx nor a rate-limit
\* signal, and a network-level exception, make it return None (the pipeline then
\* goes on with the next repository).
C12_SbomNeverRaises ==
    fn = "get_repo_sbom" =>
        /\ pc # "raised"
        /\ Fatal(response) => (pc = "returned" /\ result = ReturnNone)

\* parse_sbom_data has returned
Parsed == fn = "parse_sbom_data" /\ pc = "returned"

\* the packages of the document parsed (none when there is no document)
Packages ==
    IF Falsy(sbom_data) \/ ~In("sbom", sbom_data.value) THEN <<>>
    ELSE Get(sbom_data.value.value.sbom, "packages", <<>>)

Relationships ==
    IF Falsy(sbom_data) \/ ~In("sbom", sbom_data.value) THEN <<>>
    ELSE Get(sbom_data.value.value.sbom, "relationships", <<>>)

\* the packages that are not the self-describing one: their SPDXID is not the
\* target of the (first) DESCRIBES relationship
NotSelf(package) ==
    Get(package, "SPDXID", "None") # repo_spdx_id(sbom_data.value.value.sbom)
Kept == SelectSeq(Packages, NotSelf)

Declared(package) == Get(package, "licenseConcluded", "N/A")
NameOf(package) == Get(package, "name", "N/A")
OrNA(v) == IF Truthy(v) THEN v ELSE "N/A"

\* the i-th row stems from the i-th package kept
RowIndices == DOMAIN dependencies \cap DOMAIN Kept

\* C13: for a package whose declared license is N/A or NOASSERTION and whose name
\* has a cache entry, the output license is the entry's spdxId when that is present
\* and neither N/A nor NOASSERTION; else NOASSERTION (Other) when the spdxId is
\* NOASSERTION and the entry's license name is Other; otherwise, and without a
\* cache entry, the declared license.
C13_LicenseEnrichment ==
    Parsed =>
      \A i \in RowIndices :
        LET declared == Declared(Kept[i])
            name == NameOf(Kept[i])
        IN  declared \in {"N/A", "NOASSERTION"} =>
              dependencies[i].license_info =
                 IF name \notin DOMAIN graphql_cache THEN declared
                 ELSE IF /\ Truthy(graphql_cache[name].spdxId)
                         /\ graphql_cache[name].spdxId \notin {"N/A", "NOASSERTION"}
                 THEN graphql_cache[name].spdxId
                 ELSE IF /\ graphql_cache[name].spdxId = "NOASSERTION"
                         /\ graphql_cache[name].name = "Other"
                 THEN "NOASSERTION (Other)"
                 ELSE declared

\* C13 witness: NOASSERTION declared, the entry has NOASSERTION and Other
C13_Witness ==
    /\ Parsed /\ Len(dependencies) = 1 /\ Kept = <<PkgA>>
    /\ "a" \in DOMAIN graphql_cache
    /\ graphql_cache["a"].name = "Other"
    /\ dependencies[1].license_info = "NOASSERTION (Other)"

\* C14: for every package whose name has a cache entry, the row's
\* dependency_repo_name and dependency_license_url are the entry's repository name
\* and license URL when present (N/A otherwise), whether or not the license was
\* replaced.
C14_CrossReferenceFields ==
    Parsed =>
      \A i \in RowIndices :
        NameOf(Kept[i]) \in DOMAIN graphql_cache =>
          /\ dependencies[i].dep_repo_name = OrNA(graphql_cache[NameOf(Kept[i])].repoName)
          /\ dependencies[i].dep_license_url = OrNA(graphql_cache[NameOf(Kept[i])].url)

\* C14, amended: for every package whose declared license is N/A or NOASSERTION
\* and whose name has a cache entry, the two fields are the entry's repository name
\* and license URL when present (N/A otherwise), whether or not the license was
\* replaced; for every other package both fields are N/A.
C14_CrossReferenceWhenUndeclared ==
    Parsed =>
      \A i \in RowIndices :
        LET name == NameOf(Kept[i]) IN
        IF Declared(Kept[i]) \in {"N/A", "NOASSERTION"} /\ name \in DOMAIN graphql_cache
        THEN /\ dependencies[i].dep_repo_name = OrNA(graphql_cache[name].repoName)
             /\ dependencies[i].dep_license_url = OrNA(graphql_cache[name].url)
        ELSE /\ dependencies[i].dep_repo_name = "N/A"
             /\ dependencies[i].dep_license_url = "N/A"

\* C14 witness: the license stays NOASSERTION, the repository name is carried over
C14_Witness ==
    /\ Parsed /\ Len(dependencies) = 1 /\ Kept = <<PkgA>>
    /\ "a" \in DOMAIN graphql_cache
    /\ graphql_cache["a"].spdxId = "None"
    /\ dependencies[1].license_info = "NOASSERTION"
    /\ dependencies[1].dep_repo_name = "o/a"
    /\ dependencies[1].dep_license_url = "N/A"

\* C15: for a package whose declared license is neither N/A nor NOASSERTION the
\* output license is the declared license, whatever the cache holds, also an entry
\* of another spdxId for the same name.
C15_DeclaredLicenseKept ==
    Parsed =>
      \A i \in RowIndices :
        Declared(Kept[i]) \notin {"N/A", "NOASSERTION"} =>
          dependencies[i].license_info = Declared(Kept[i])

\* C15 witness: MIT declared, the cache has Apache-2.0 for the same name
C15_Witness ==
    /\ Parsed /\ Len(dependencies) = 1 /\ Kept = <<PkgA_MIT>>
    /\ "a" \in DOMAIN graphql_cache
    /\ graphql_cache["a"].spdxId = "Apache-2.0"
    /\ dependencies[1].license_info = "MIT"

\* a package whose SPDXID is the relatedSpdxElement of a DESCRIBES relationship
Described(package) ==
    /\ "SPDXID" \in DOMAIN package
    /\ \E k \in DOMAIN Relationships :
          /\ Get(Relationships[k], "relationshipType", "None") = "DESCRIBES"
          /\ "relatedSpdxElement" \in DOMAIN Relationships[k]
          /\ Relationships[k].relatedSpdxElement = package.SPDXID
NotDescribed(package) == ~Described(package)

\* the rows of a sequence of packages
RowsOf(packages) ==
    [ i \in DOMAIN packages |-> Row(packages[i], repo_url, graphql_cache) ]

\* C16: no row stems from a package whose SPDXID is the relatedSpdxElement of a
\* DESCRIBES relationship of the document, also with several such relationships,
\* and no other package is dropped (not without a DESCRIBES relationship, not a
\* package without SPDXID).
C16_SelfPackagesExcluded ==
    Parsed => dependencies = RowsOf(SelectSeq(Packages, NotDescribed))

\* C17: parse_sbom_data returns exactly one row per package other than the
\* self-describing one, in the order of the packages in the document; the rows
\* are determined by the document, the repository URL and the cache.
C17_OneRowPerPackageInOrder ==
    Parsed =>
      /\ Len(dependencies) = Len(Kept)
      /\ dependencies = RowsOf(Kept)
      /\ \A i \in DOMAIN dependencies : dependencies[i].repo_url = repo_url

\* C17 witness: two packages, none of them the repository's, two rows in order
C17_Witness ==
    /\ Parsed
    /\ Packages = <<PkgB_Bare, PkgA>>
    /\ Len(dependencies) = 2
    /\ dependencies[1].name = "b" /\ dependencies[2].name = "a"

\* the repository an event is about
EventRepo(e) == all_repos[e.index + 1]
EventKey(e) == Rank(Lower(EventRepo(e).full_name))

\* the rows this run has written for repositories (not the header, not the rows
\* that were in the file before)
IsDataRow(row) == row \notin {Header, EarlierRow}
DataRows == SelectSeq(csvfile, IsDataRow)

\* the packages of the repository's SBOM other than the self-describing one, and
\* their rows
NonSelf(repo) ==
    LET sbom == server[repo.full_name].sbom_data.value.value.sbom
        Other(package) == Get(package, "SPDXID", "None") # repo_spdx_id(sbom)
    IN  SelectSeq(Get(sbom, "packages", <<>>), Other)
NonSelfRows(repo) ==
    [ n \in DOMAIN NonSelf(repo) |->
        Row(NonSelf(repo)[n], repo.html_url, server[repo.full_name].graphql_cache.value) ]

\* the repositories whose rows were produced, in the order of the calls
IsEnrich(e) == e.phase = "enrich"
Enriched == SelectSeq(events, IsEnrich)
RowsHandedOver ==
    DataRows = Flatten([ n \in DOMAIN Enriched |-> NonSelfRows(EventRepo(Enriched[n])) ])

\* C18: main calls get_graphql_license_cache and get_repo_sbom only for
\* repositories that are not archived, in ascending order of the lowercase full
\* name; the rows written are, repository by repository in that order, the rows of
\* the non-self packages of the SBOM of each repository processed, in SBOM order
\* (so their number is the sum of the non-self packages); a run that ends normally
\* has called for every repository from the start index on that is not skipped.
C18_PipelineOrderAndRows ==
    fn = "main" =>
      /\ \A n \in DOMAIN events : ~Get(EventRepo(events[n]), "archived", FALSE)
      /\ \A m, n \in DOMAIN events : m < n => EventKey(events[m]) <= EventKey(events[n])
      /\ RowsHandedOver
      /\ pc = "returned" =>
           { events[n].index : n \in DOMAIN events }
             = { p \in start_index .. Len(all_repos) - 1 : ~Skipped(all_repos[p + 1]) }

\* C18 witness: three repositories listed in another order, one archived; the two
\* others are processed, org/a before Org/B, one row and two rows
C18_Witness ==
    /\ fn = "main" /\ pc = "returned" /\ start_index = 0
    /\ orgPages = << <<RepoArchived, RepoB, RepoA>> >>
    /\ all_repos = <<RepoA, RepoB, RepoArchived>>
    /\ Len(events) = 6 /\ events[1].index = 0 /\ events[6].index = 1
    /\ Len(DataRows) = 3
    /\ DataRows[1].repo_url = RepoA.html_url /\ DataRows[3].repo_url = RepoB.html_url

\* C19: for each repository the license cache has been built before the SBOM is
\* requested, the SBOM fetch has returned before the rows are produced, and the
\* rows of a repository are in the file before a call for the next repository is
\* made; the calls of two repositories are not interleaved.
C19_PhasesInOrder ==
    fn = "main" =>
      /\ \A n \in DOMAIN events :
           LET e == events[n] IN
           /\ e.phase = "cache" =>
                \/ n = 1
                \/ /\ events[n - 1].index < e.index
                   /\ events[n - 1].phase \in {"sbom", "enrich"}
           /\ e.phase = "sbom" =>
                n > 1 /\ events[n - 1] = [phase |-> "cache", index |-> e.index]
           /\ e.phase = "enrich" =>
                n > 1 /\ events[n - 1] = [phase |-> "sbom", index |-> e.index]
      /\ pc = "sbom" =>
           graphql_cache = server[all_repos[idx + 1].full_name].graphql_cache.value
      /\ pc = "enrich" =>
           /\ sbom_data = server[all_repos[idx + 1].full_name].sbom_data
           /\ events[Len(events)] = [phase |-> "sbom", index |-> idx]
      /\ pc \in {"cache", "sbom"} =>
           /\ \A n \in DOMAIN Enriched : Enriched[n].index < idx
           /\ RowsHandedOver

\* C19 witness: the second repository's SBOM is about to be requested, the rows
\* of the first are in the file
C19_Witness ==
    /\ fn = "main" /\ pc = "sbom" /\ idx = 1 /\ start_index = 0
    /\ Len(events) = 4
    /\ events[3] = [phase |-> "enrich", index |-> 0]
    /\ events[4] = [phase |-> "cache", index |-> 1]
    /\ Len(DataRows) = 2

\* a run from index 0 ends with KeyError at this repository
Crashes(repo) ==
    /\ ~Skipped(repo)
    /\ \/ server[repo.full_name].graphql_cache = Raises
       \/ server[repo.full_name].sbom_data = Raises

\* the rows a run from index 0 writes for the repository at position p (from 1)
RowsOfRun0(p) ==
    IF \/ \E q \in 1 .. p : Crashes(all_repos[q])
       \/ Skipped(all_repos[p])
       \/ Falsy(server[all_repos[p].full_name].sbom_data)
    THEN <<>>
    ELSE NonSelfRows(all_repos[p])

\* C20: a run started at index k (0 <= k < number of repositories) makes its calls
\* for repositories at the positions k, k+1, ... of the sorted listing only, and
\* has written, when it ends, exactly the rows that a run started at index 0 writes
\* for those repositories, in the same order.
C20_ResumeReproducesRun ==
    (fn = "main" /\ Ended /\ start_index < Len(all_repos)) =>
      /\ \A n \in DOMAIN events : events[n].index >= start_index
      /\ DataRows = Flatten([ p \in 1 .. Len(all_repos) - start_index |->
                                RowsOfRun0(start_index + p) ])

\* C21: the attempt counter of get_repo_sbom and of get_graphql_license_cache is 0
\* when a call starts, whatever the call before left; it leaves 0 only by an
\* exponential retry of the same call, which adds one; so the first exponential
\* wait of a call is 5 * 2^0 seconds plus the jitter, whatever retries the cache
\* build, the listing or the repository before went through.
FreshCounterStep ==
    /\ (pc = "returned" /\ pc' = "loop") => retries' = 0
    /\ retries' \notin {retries, 0} =>
          /\ fn' = fn /\ pc = "loop"
          /\ ExponentialSignal(response')
          /\ retries' = retries + 1
    /\ (fn \in BackoffLoops /\ pc = "loop" /\ retries = 0 /\ ExponentialSignal(response')) =>
          /\ pc' = "loop"
          /\ slept' = << Seconds(5 * Pow2(0)) + jitter' >>

C21_BackoffHistoryIsLocal == [][FreshCounterStep]_vars

\* C21 witness: the call before left a counter above 0, and the SBOM fetch that
\* follows has made its first exponential wait, of 5 seconds and the jitter
C21_Witness ==
    /\ fn = "get_repo_sbom" /\ pc = "loop"
    /\ events # <<>> /\ events[Len(events)].left > 0
    /\ ExponentialSignal(response)
    /\ retries = 1
    /\ slept = << Seconds(5) + jitter >>

\* C22: the cache that enriches the SBOM of a repository is the one built for
\* that repository, and the rows written for a repository are those its own SBOM
\* and its own cache give: no entry of the cache of a repository processed before
\* shows in them.
C22_CacheScopedToRepository ==
    fn = "main" =>
      /\ pc \in {"sbom", "enrich", "sleep"} =>
           graphql_cache = server[all_repos[idx + 1].full_name].graphql_cache.value
      /\ pc = "returned" =>
           DataRows = Flatten([ n \in DOMAIN Enriched |->
                                  NonSelfRows(EventRepo(Enriched[n])) ])

\* C22 witness: org/a, whose cache knows the license of package a, then Org/B
\* with an empty cache and the same SBOM: the row of Org/B keeps NOASSERTION
C22_Witness ==
    /\ fn = "main" /\ pc = "returned" /\ Len(Enriched) = 2
    /\ "a" \in DOMAIN server["org/a"].graphql_cache.value
    /\ server["Org/B"].graphql_cache = ReturnValue(EmptyDict)
    /\ server["Org/B"].sbom_data = ReturnValue(DocA)
    /\ Len(DataRows) = 2
    /\ DataRows[1].license_info = "Apache-2.0"
    /\ DataRows[2].license_info = "NOASSERTION"
    /\ DataRows[2].repo_url = RepoB.html_url

\* C23: in get_all_organization_repos a retry that no header times sleeps per the
\* backoff policy and reissues the same URL: the first such retry of a page waits
\* 5 seconds plus jitter, and one that directly follows another such retry of the
\* same page waits at least min(3600, 5 * 2^1) seconds: the wait grows.
OrgBackoffStep ==
    (/\ fn = "get_all_organization_repos" /\ pc = "loop"
     /\ ExponentialSignal(response') /\ response'.status_code = 429) =>
        /\ pc' = "loop"
        /\ UNCHANGED <<url, all_repos>>
        /\ Len(slept') = 1
        /\ IF ExponentialSignal(response) /\ response.status_code = 429
           THEN slept'[1] >= Min(Seconds(3600), Seconds(5 * Pow2(1)))
           ELSE \E j \in Jitters : slept'[1] = Seconds(5) + j

C23_OrgBackoffGrows == [][OrgBackoffStep]_vars

\* C24: a run of main that is interrupted in its loop over the repositories
\* reports an index such that, once the run resumed with that index has ended,
\* the file holds the rows of every repository exactly once, in order: none is
\* missing and none is there twice.
C24_ResumeWritesEachRowOnce ==
    (fn = "main" /\ pc = "returned" /\ Interrupted) =>
        DataRows = Flatten([ p \in 1 .. Len(all_repos) |-> RowsOfRun0(p) ])


\* a response whose page of manifests the cache build processes
ProcessedPage(r) ==
    /\ ~r.exc /\ r.status_code = 200 /\ In("data", r.body) /\ ~RateLimitSignal(r)
    /\ ~r.body.value.data.repository.isNull

\* the manifests the server holds after cursor c
PageAfter(c) == IF c + 1 \in DOMAIN gqlPages THEN gqlPages[c + 1] ELSE <<>>

\* all pages merged into an empty cache, one after the other
RECURSIVE MergePages(_, _)
MergePages(cache, pages) ==
    IF pages = <<>> THEN cache
    ELSE MergePages(MergeManifests(cache, Head(pages)), Tail(pages))

CursorStep ==
    (fn = "get_graphql_license_cache" /\ pc = "loop") =>
        /\ RateLimitSignal(response') =>
              /\ UNCHANGED <<manifests_after, license_cache>>
              /\ pc' = "loop" \/ raised' = "KeyError"
        /\ ~ProcessedPage(response') => UNCHANGED <<manifests_after, license_cache>>
        /\ ProcessedPage(response') =>
              LET info == response'.body.value.data.repository
                             .dependencyGraphManifests.pageInfo IN
              /\ manifests_after' = info.endCursor
              /\ manifests_after < Len(gqlPages) => manifests_after' = manifests_after + 1
              /\ license_cache' = MergeManifests(license_cache, PageAfter(manifests_after))
              /\ pc' = "loop" <=> Get(info, "hasNextPage", FALSE)
              /\ pc' # "loop" =>
                    /\ pc' = "returned"
                    /\ manifests_after' = Len(gqlPages)
                    /\ result' = ReturnValue(MergePages(EmptyDict, gqlPages))

\* C25: in get_graphql_license_cache the manifest cursor advances only on a
\* processed page: a rate-limit retry keeps cursor and cache, a processed page
\* merges the manifests after the current cursor and moves the cursor to the
\* page's endCursor, and the loop ends at the first processed page that reports
\* no next page; the cache returned then holds every page merged once, in
\* cursor order.
C25_CursorAdvances == [][CursorStep]_vars

\* C25 witness: rate-limited twice after the first of two pages, the call still
\* holds the cursor and the cache of that page
C25_Witness ==
    /\ fn = "get_graphql_license_cache" /\ pc = "loop"
    /\ Len(gqlPages) = 2
    /\ ExponentialSignal(response) /\ retries = 2
    /\ manifests_after = 1
    /\ license_cache # EmptyDict
    /\ license_cache = MergeManifests(EmptyDict, gqlPages[1])


\* one request of fetch_repos.make_api_request judged by fetch_deps.handle_api_retry
\* with the same clock reading: a retry with a wait the headers dictate sleeps
\* that wait and tries again, a response that is no rate limit and no error is
\* handed to the caller without a sleep
ReposAgreeStep ==
    (fn = "get_paginated_data" /\ pc = "loop" /\ ~response'.exc) =>
        LET out == handle_api_retry(response', now') IN
        out.raised = "none" =>
            /\ (out.should_retry /\ out.sleep_duration > 0) =>
                   /\ slept' = << out.sleep_duration >>
                   /\ attempt' = attempt + 1
            /\ (~out.should_retry /\ response'.status_code < 400) =>
                   /\ slept' = <<>>
                   /\ attempt' = 0

\* C26: the two rate-limit handling paths agree: for every response,
\* fetch_repos.make_api_request takes the retry decision and waits the duration
\* that fetch_deps.handle_api_retry prescribes (Retry-After + 1, the same
\* precedence of the primary limit, Retry-After honoured on 429 and 403 only).
C26_RateLimitPathsAgree == [][ReposAgreeStep]_vars


\* C27: fetch_repos.main processes the repositories in ascending order of the
\* lowercase full name, so that the repository at an index is the one the
\* dependency pipeline has at that index for the same listing.
C27_InventoryOrder ==
    (fn = "fetch_repos.main" /\ pc # "call") =>
        /\ \A j, k \in DOMAIN all_repos :
              j < k => Rank(Lower(all_repos[j].full_name)) <= Rank(Lower(all_repos[k].full_name))
        /\ all_repos = Sort(Flatten(orgPages))


\* the rate-limit checks of make_api_request hold the reply back
ReposRateLimited(r) ==
    /\ ~r.exc
    /\ \/ RetryAfter \in DOMAIN r.headers
       \/ r.status_code = 403 /\ Get(r.headers, Remaining, 1) = 0

\* the request raises: a network failure, or raise_for_status on an error status
ReposFails(r) == r.exc \/ (~ReposRateLimited(r) /\ r.status_code >= 400)

\* one request of a call of make_api_request; attempt requests of the call
\* were issued before it
RequestStep ==
    (fn = "get_paginated_data" /\ pc = "loop") =>
        /\ attempt + 1 <= max_retries
        /\ (~ReposRateLimited(response') /\ ~ReposFails(response')) =>
              /\ slept' = <<>> /\ attempt' = 0
              /\ raised' \in {"none", "JSONDecodeError"}
        /\ (slept' = <<>> /\ attempt' = 0) =>
              /\ ~response'.exc /\ response'.status_code < 400
              /\ ~ReposRateLimited(response')
        /\ (attempt + 1 < max_retries /\ (ReposRateLimited(response') \/ ReposFails(response'))) =>
              /\ pc' = "loop" /\ attempt' = attempt + 1
              /\ UNCHANGED <<url, all_items>>
              /\ Len(slept') = 1
        /\ (attempt + 1 = max_retries /\ ReposFails(response')) =>
              /\ pc' = "raised" /\ raised' = "RequestException"
        /\ (attempt + 1 = max_retries /\ ReposRateLimited(response')) =>
              /\ Len(slept') = 1
              /\ pc' = "returned" /\ raised' = "none"
              /\ result' = ReturnValue(all_items)

\* C28: one call of fetch_repos.make_api_request issues at most max_retries
\* requests, rate-limit waits and exceptions counted together; it returns a
\* response only for a reply that passed the rate-limit checks with a status
\* below 400, re-raises when the last attempt fails with an exception, and
\* returns None (the caller then returns what it collected) when the last
\* attempt was a rate-limit wait.
C28_AtMostFiveRequests == [][RequestStep]_vars

\* C28 witness: the fifth request of a call was answered by a rate limit after
\* a page was collected, and the caller returned that page
C28_Witness ==
    /\ fn = "get_paginated_data" /\ pc = "returned"
    /\ attempt = max_retries
    /\ ReposRateLimited(response)
    /\ Len(slept) = 1
    /\ all_items # <<>>
    /\ result = ReturnValue(all_items)


\* the calls of one kind that a run made for the repository at index n
CallsFor(phase, n) ==
    { e \in DOMAIN events : events[e].phase = phase /\ events[e].index = n }

\* a repository the pipeline is to process: not archived, with a full name and
\* a URL, whatever the shape of the name
Eligible(repo) ==
    /\ Truthy(Get(repo, "full_name", "None"))
    /\ Truthy(Get(repo, "html_url", "None"))
    /\ ~Get(repo, "archived", FALSE)

\* C29: a run of the dependency pipeline that comes to its end has made exactly
\* one license-cache build and exactly one SBOM fetch for every repository at or
\* after the start index that is not archived and has a full name and a URL,
\* whatever the shape of the full name.
C29_EveryEligibleRepositoryFetched ==
    (fn = "main" /\ pc = "returned") =>
        \A n \in start_index .. Len(all_repos) - 1 :
            Eligible(all_repos[n + 1]) =>
                /\ Cardinality(CallsFor("cache", n)) = 1
                /\ Cardinality(CallsFor("sbom", n)) = 1


\* the loop is about to reissue its request: the last response was a rate limit
Retrying == pc = "loop" /\ (should_retry \/ RateLimitSignal(response))

\* a secondary limit timed by Retry-After (the primary limit has precedence)
RetryAfterDictated(r) == HeaderDictated(r) /\ ~PrimaryLimit(r)

\* C30: with non-negative Retry-After and X-RateLimit-Reset values every retry
\* of the three request loops of fetch_deps sleeps at least 1 second before the
\* request is reissued, at least 5 seconds on the primary-limit and exponential
\* paths; a wait derived from Retry-After is Retry-After + 1 seconds and is
\* never taken for the exponential-backoff sentinel.
C30_EveryRetryWaits ==
    (fn \in DepsLoops /\ Retrying) =>
        /\ should_retry /\ RateLimitSignal(response)
        /\ Len(slept) = 1
        /\ slept[1] >= Seconds(1)
        /\ (PrimaryLimit(response) \/ ExponentialSignal(response)) =>
               slept[1] >= Seconds(5)
        /\ RetryAfterDictated(response) =>
               /\ slept[1] = Seconds(response.headers[RetryAfter] + 1)
               /\ Seconds(response.headers[RetryAfter] + 1) # BackoffSignal
               /\ fn \in BackoffLoops => retries = 0 /\ sleep_duration = slept[1]

\* C30 witness: a 429 with Retry-After: 0 was answered by a sleep of one second
C30_Witness ==
    /\ fn \in DepsLoops /\ Retrying
    /\ response.status_code = 429
    /\ RetryAfter \in DOMAIN response.headers
    /\ response.headers[RetryAfter] = 0
    /\ slept = << Seconds(1) >>

============================================================================
